---- MODULE Spec2Model ----
(***************************************************************************)
(* Brightify monitor-control layer: the brightness estimator of            *)
(* MonitorBase, the discovery pass of finder.py, and the monitor handles   *)
(* MonitorDDCCI (on the Linux and Windows VCP backends), M27Q and          *)
(* WMIMonitor.                                                             *)
(*                                                                         *)
(* Python's None is encoded as the integer -1: every brightness the code   *)
(* handles is a byte read from a device or a value clamped to 0..100.      *)
(***************************************************************************)
EXTENDS Integers, Sequences, FiniteSets, TLC

None == -1

(***************************************************************************)
(* Bounds of the model.                                                    *)
(***************************************************************************)
MaxSamples == 3
SampleVals == {-3, 40, 41, 42, 43, 70}
LastVals == {None, 0, 60, 82, 90, 100}

(***************************************************************************)
(* MonitorBase: brightness range and the estimator.                        *)
(***************************************************************************)
min_brightness == 0
max_brightness == 100
diff_th == 5

VARIABLES
    last_get_brightness,   \* MonitorBase.last_get_brightness
    last_set_brightness,   \* MonitorBase.last_set_brightness
    readings,              \* the samples passed to convert_sensor_readings
    est_pc,                \* "ready" before the call, "done" after it
    est_result             \* value returned by convert_sensor_readings

baseVars == <<last_get_brightness, last_set_brightness>>
estVars == <<readings, est_pc, est_result>>

VARIABLES
    disc_os,            \* brightify.host_os
    usb_devices,        \* devices of context.getDeviceList, in order
    has_wmi,            \* has_wmi_monitor()
    disc_pc,            \* position of get_supported_monitors
    usb_monitors,       \* result of _usb_monitors
    vcps,               \* result of get_vcps: the VCP.name of each channel
    all_ddcci,          \* impls of _ddcci_monitors
    probe_log,          \* per probed channel: what the probe met
    internal_monitors,  \* result of _internal_monitors
    disc_result         \* list returned by get_supported_monitors

discVars == <<disc_os, usb_devices, has_wmi, disc_pc, usb_monitors, vcps,
              all_ddcci, probe_log, internal_monitors, disc_result>>

VARIABLES
    kind,          \* class of the handle under test: "DDCCI", "M27Q" or "WMI"
    host_os,       \* VCP backend of a MonitorDDCCI: "Linux" or "Windows"
    pc,            \* per calling thread: its position in the call
    op,            \* per calling thread: the call and its arguments
    tries,         \* per calling thread: attempts of the retry loop used up
    values,        \* per calling thread: brightness_values of get_brightness
    ret,           \* per calling thread: the value returned
    leave,         \* per calling thread: how the loop was left: "" (not
                   \* left, or ran out), "return" (return from inside the
                   \* loop), "raise" (an exception is pending)
    calls,         \* calls made on the handle so far
    vcp_handle,    \* LinuxVCP.fd / WindowsVCP.handle
    in_context,    \* LinuxVCP.in_context
    os_open,       \* handles the OS holds open for this channel
    next_handle,   \* handles opened so far
    code_max,      \* MonitorDDCCI.code_max[luminance]
    mon_name,      \* MonitorDDCCI.__name
    lock,          \* MonitorUSB.lock: 0 when free, else the holding thread
    usb_ready,     \* time_ns() - last_interaction_ns >= usb_delay_ns
    wire_owner,    \* thread that ran the last usb_write / usb_read
    wire,          \* what the step just taken did: the transfer it delivered
                   \* to the device and whether it assigned last_interaction_ns
    wire_quiet,    \* usb_delay_ns have passed since the last delivered transfer
    last_returned, \* the value get_brightness last returned to a caller
                   \* (None until a call has returned a value)
    busy           \* per calling thread: the device was not ready when the
                   \* non-blocking call polled it

threadVars == <<pc, op, tries, values, ret, leave, calls>>
ddcVars == <<vcp_handle, in_context, os_open, next_handle, code_max, mon_name>>
usbVars == <<lock, usb_ready, wire_owner>>
ioVars == <<wire, wire_quiet, busy, last_returned>>
monVars == <<kind, host_os, threadVars, ddcVars, usbVars, ioVars>>

VARIABLES
    vcp_pc,           \* LinuxVCP under test: "closed", "open" (inside a
                      \* `with` scope), "done" (get_vcp_feature has ended),
                      \* "caps" (in the loop of get_vcp_capabilities),
                      \* "caps_done" (get_vcp_capabilities has ended)
    vcp_code,         \* the feature code asked for
    checksum_errors,  \* LinuxVCP.checksum_errors: "ignore" or "strict"
    reply,            \* the bytes the display answers with, in order
    vcp_out,          \* what get_vcp_feature gave: a pair or an exception
    frame,            \* the request built last by _prepare_data
    in_scope          \* the caller is inside a `with vcp:` block whose
                      \* __enter__ returned

VARIABLES
    display_caps,  \* the capability string the display holds, as ASCII codes
    caps_str,      \* get_vcp_capabilities: caps_str
    cap_offset,    \* get_vcp_capabilities: offset
    loop_count,    \* get_vcp_capabilities: rounds completed
    cap_err,       \* "none": not ended; "": returned caps_str; else the error
    asked,         \* the offsets the display was asked for, in order
    sent           \* the fragments the display answered with, in order

capVars == <<display_caps, caps_str, cap_offset, loop_count, cap_err, asked, sent>>

VARIABLES
    sum_data,      \* the bytes handed to get_checksum
    sum_out,       \* get_checksum(data + [get_checksum(data)]), None before
    parse_in,      \* the string handed to parse_capabilities, as characters
    parse_out      \* what parse_capabilities gave: fields or an exception

pureVars == <<sum_data, sum_out, parse_in, parse_out>>

protoVars == <<vcp_pc, vcp_code, checksum_errors, reply, vcp_out, frame, in_scope,
               capVars, pureVars>>

VARIABLES
    slider         \* value shown by the row of the handle; None: no row

VARIABLES
    del_log,       \* what each __del__ of the handle did, in call order
    foreign        \* descriptor numbers this handle closed that the process
                   \* has since been given again for another file

delVars == <<del_log, foreign>>

VARIABLES
    request_store, \* MonitorWorker.__request_store[monitor]; None: no entry,
                   \* or the entry None
    sig_queue,     \* update_signal emissions the worker thread has not run yet
    w_pc,          \* position of MonitorWorker._update on the worker thread
    w_val,         \* its local `brightness`
    requested,     \* the values passed to request_change, in order
    handed,        \* the values the worker passed to set_brightness, in order
    ticks          \* timeouts of the sensor timer handled so far

workerVars == <<request_store, sig_queue, w_pc, w_val, requested, handed, ticks>>

VARIABLES
    transfers      \* control transfers made through the USB handles of the
                   \* returned list: the handle used and the device reached

VARIABLES
    measurements,  \* SensorComm.measurements: the list the attribute is bound to
    s_pc,          \* position of SensorComm.update on the sensor thread
    arrived,       \* the readings received since the list was last cleared
    ui_taken,      \* the UI thread has passed the list to the estimator
    ui_list,       \* the list object the estimator was given, as it is now
    ui_shared,     \* that object is still the one bound to measurements
    ui_seen        \* the samples the estimator has iterated over so far

sensorVars == <<measurements, s_pc, arrived, ui_taken, ui_list, ui_shared, ui_seen>>

\* state of the application around the handle
extVars == <<delVars, workerVars, transfers, sensorVars>>

uiVars == <<slider, extVars>>

\* what the estimator and the discovery pass leave alone
notEst == <<discVars, monVars, protoVars, uiVars>>
notDisc == <<baseVars, estVars, monVars, protoVars, uiVars>>

Max2(a, b) == IF a >= b THEN a ELSE b
Min2(a, b) == IF a <= b THEN a ELSE b
Abs(a) == IF a >= 0 THEN a ELSE -a

\* int(x / n) for a float quotient: truncation toward zero
TruncDiv(a, n) == IF a >= 0 THEN a \div n ELSE -((-a) \div n)

clamp_brightness(b) ==
    IF b = None THEN None ELSE Max2(Min2(b, max_brightness), min_brightness)

\* the conversion without the clamp
measurement_to_brightness_raw(m) == m * 2

\* int(m * 2) of an integer sample, clamped
measurement_to_brightness(m) == clamp_brightness(m * 2)

RECURSIVE SumSeq(_)
SumSeq(s) == IF s = <<>> THEN 0 ELSE Head(s) + SumSeq(Tail(s))

MapBrightness(rs) == [i \in 1..Len(rs) |-> measurement_to_brightness(rs[i])]

\* average first, convert afterwards
convert_sensor_readings_avg_first(rs, last) ==
    IF Len(rs) = 0 THEN None
    ELSE LET potential == measurement_to_brightness(TruncDiv(SumSeq(rs), Len(rs)))
         IN  IF last = None THEN None
             ELSE IF Abs(last - potential) >= diff_th THEN potential ELSE None

\* the hysteresis compares with > instead of >=
convert_sensor_readings_strict(rs, last) ==
    LET brightnesses == MapBrightness(rs)
    IN  IF Len(brightnesses) = 0 THEN None
        ELSE LET potential == TruncDiv(SumSeq(brightnesses), Len(brightnesses))
             IN  IF last = None THEN None
                 ELSE IF Abs(last - potential) > diff_th THEN potential ELSE None

\* an unknown last brightness read as 0
convert_sensor_readings_or_zero(rs, last) ==
    LET brightnesses == MapBrightness(rs)
        current == IF last = None THEN 0 ELSE last
    IN  IF Len(brightnesses) = 0 THEN None
        ELSE LET potential == TruncDiv(SumSeq(brightnesses), Len(brightnesses))
             IN  IF Abs(current - potential) >= diff_th THEN potential ELSE None

convert_sensor_readings(rs, last) ==
    LET brightnesses == MapBrightness(rs)
    IN  IF Len(brightnesses) = 0 THEN None
        ELSE LET potential == TruncDiv(SumSeq(brightnesses), Len(brightnesses))
             IN  IF last = None THEN None
                 ELSE IF Abs(last - potential) >= diff_th THEN potential ELSE None

ReadingSeqs == UNION {[1..n -> SampleVals] : n \in 0..MaxSamples}

EstIdle ==
    /\ readings = <<>>
    /\ est_pc = "off"
    /\ est_result = None

InitEst ==
    /\ last_get_brightness \in LastVals
    /\ last_set_brightness = None
    /\ readings \in ReadingSeqs
    /\ est_pc = "ready"
    /\ est_result = None

\* the call as the earlier revisions made it: the current brightness is
\* read from the monitor (get_brightness(force=True)) and cached
ConvertSensorReadings_reading ==
    /\ est_pc = "ready"
    /\ \E v \in LastVals \ {None} :
          /\ est_result' = convert_sensor_readings(readings, v)
          /\ last_get_brightness' = v
    /\ wire' = [xfer |-> "read", stamp |-> TRUE]
    /\ est_pc' = "done"
    /\ UNCHANGED <<readings, last_set_brightness, discVars, protoVars, uiVars,
                   kind, host_os, threadVars, ddcVars, usbVars, wire_quiet,
                   busy, last_returned>>

ConvertSensorReadings ==
    /\ est_pc = "ready"
    /\ est_result' = convert_sensor_readings(readings, last_get_brightness)
    /\ est_pc' = "done"
    /\ UNCHANGED <<readings, baseVars, notEst>>


(***************************************************************************)
(* finder.py: the discovery pass get_supported_monitors.                   *)
(***************************************************************************)
MaxUsb == 2
MaxChannels == 2
DDC_max_tries == 3

VcpNoName == "<None>"                     \* VCP.name is None
UsbKinds == {"M27Q", "other"}              \* attached USB devices by (vid, pid)
WindowsVcpNames == {VcpNoName, "M27Q", "Internal"}
CapModels == {"", "M27Q"}                  \* model(...) of a capability string

SeqsUpTo(S, n) == UNION {[1..k -> S] : k \in 0..n}

Monitor(src, name, id) == [src |-> src, name |-> name, id |-> id]

\* MonitorDDCCI.default_name / is_unknown
default_name == "Monitor"
is_unknown(name) == name = default_name

\* MonitorDDCCI.__init__: the name of the VCP, or the default name
InitialName(vcp_name) == IF vcp_name = VcpNoName THEN default_name ELSE vcp_name

\* _usb_monitors: the devices enumerated (all of them, or those seen before
\* a usb1.USBError) that match a registered driver, in enumeration order
RECURSIVE MatchUsb(_, _, _)
MatchUsb(devs, i, upto) ==
    IF i > upto THEN <<>>
    ELSE (IF devs[i] = "M27Q" THEN <<Monitor("USB", "M27Q", i)>> ELSE <<>>)
         \o MatchUsb(devs, i + 1, upto)

\* the deduplication is left out
DedupDDCCI_none(ddcci, usb) == ddcci

\* get_supported_monitors: DDC/CI monitors not already connected via USB
DedupDDCCI(ddcci, usb) ==
    LET keep(m) == ~ \E i \in 1..Len(usb) : m.name = usb[i].name
        F[i \in 0..Len(ddcci)] ==
            IF i = 0 THEN <<>>
            ELSE IF keep(ddcci[i]) THEN Append(F[i - 1], ddcci[i]) ELSE F[i - 1]
    IN  F[Len(ddcci)]

DiscIdle ==
    /\ disc_os = "Linux"
    /\ usb_devices = <<>>
    /\ has_wmi = FALSE
    /\ disc_pc = "off"
    /\ usb_monitors = <<>>
    /\ vcps = <<>>
    /\ all_ddcci = <<>>
    /\ probe_log = <<>>
    /\ internal_monitors = <<>>
    /\ disc_result = <<>>

InitDisc ==
    /\ disc_os \in {"Windows", "Linux", "Darwin"}
    /\ usb_devices \in SeqsUpTo(UsbKinds, MaxUsb)
    /\ has_wmi \in BOOLEAN
    /\ disc_pc = "usb"
    /\ usb_monitors = <<>>
    /\ vcps = <<>>
    /\ all_ddcci = <<>>
    /\ probe_log = <<>>
    /\ internal_monitors = <<>>
    /\ disc_result = <<>>

\* _usb_monitors(_supported_usb_impls()); a usb1.USBError ends the
\* enumeration early and is logged
UsbMonitors ==
    /\ disc_pc = "usb"
    /\ \E upto \in 0..Len(usb_devices) :
           usb_monitors' = MatchUsb(usb_devices, 1, upto)
    /\ disc_pc' = "vcps"
    /\ UNCHANGED <<disc_os, usb_devices, has_wmi, vcps, all_ddcci, probe_log,
                   internal_monitors, disc_result>>
    /\ UNCHANGED notDisc

MaxTransfers == 2

\* libusb_open_device_with_vid_pid: the first attached device with the ids
\* (0: none)
FirstWithIds(devs, ids) ==
    IF \E i \in 1..Len(devs) : devs[i] = ids
    THEN CHOOSE i \in 1..Len(devs) : devs[i] = ids /\ \A j \in 1..(i - 1) : devs[j] # ids
    ELSE 0

\* M27Q.usb_write / usb_read through a handle of the returned list:
\* context.openByVendorIDAndProductID(self.vid(), self.pid()) and the
\* control transfer on the handle it gives; nothing is transferred when the
\* device cannot be opened
ControlTransfer ==
    /\ disc_pc = "done"
    /\ Len(transfers) < MaxTransfers
    /\ \E i \in 1..Len(disc_result) :
          /\ disc_result[i].src = "USB"
          /\ \E opened \in BOOLEAN :
                LET d == FirstWithIds(usb_devices, disc_result[i].name)
                IN  transfers' = IF opened /\ d # 0
                                 THEN Append(transfers, [handle |-> disc_result[i].id, device |-> d])
                                 ELSE transfers
    /\ UNCHANGED <<discVars, baseVars, estVars, monVars, protoVars, slider, delVars, workerVars,
                   sensorVars>>

\* _ddcci_monitors on an unsupported OS: no channel is looked for
GetVcpsUnsupported ==
    /\ disc_pc = "vcps"
    /\ disc_os \notin {"Windows", "Linux"}
    /\ disc_pc' = "internal"
    /\ UNCHANGED <<disc_os, usb_devices, has_wmi, usb_monitors, vcps, all_ddcci,
                   probe_log, internal_monitors, disc_result>>
    /\ UNCHANGED notDisc

\* get_vcps succeeded: one VCP per logical monitor (Windows, named from the
\* display mapping when found) or per I2C bus that answered (Linux, unnamed)
GetVcps ==
    /\ disc_pc = "vcps"
    /\ disc_os \in {"Windows", "Linux"}
    /\ vcps' \in SeqsUpTo(IF disc_os = "Windows" THEN WindowsVcpNames ELSE {VcpNoName},
                          MaxChannels)
    /\ disc_pc' = "probe"
    /\ UNCHANGED <<disc_os, usb_devices, has_wmi, usb_monitors, all_ddcci,
                   probe_log, internal_monitors, disc_result>>
    /\ UNCHANGED notDisc

\* Windows get_vcps: EnumDisplayMonitors failed, VCPError is raised and
\* nothing between it and the caller of get_supported_monitors catches it
GetVcpsRaises ==
    /\ disc_pc = "vcps"
    /\ disc_os = "Windows"
    /\ disc_pc' = "raised"
    /\ UNCHANGED <<disc_os, usb_devices, has_wmi, usb_monitors, vcps, all_ddcci,
                   probe_log, internal_monitors, disc_result>>
    /\ UNCHANGED notDisc

\* What one channel does while probed.  cap: the outcome of update_cap(force):
\* "fail" every fetch raised VCPError, "raise" the scope entry or exit or the
\* parser raised, else the model of the last fetched capability string.
\* scope_fail: the first get_brightness attempt whose scope raised on entry or
\* on exit (0: none).  reads: which of the attempts read a brightness.
ProbeBehaviours ==
    [cap : {"fail", "raise"} \cup CapModels,
     scope_fail : 0..DDC_max_tries,
     on_exit : BOOLEAN,
     reads : [1..DDC_max_tries -> BOOLEAN]]

\* the brightness reads that succeeded during get_brightness(force=True)
Answered(b) ==
    LET last == IF b.scope_fail = 0 THEN DDC_max_tries
                ELSE IF b.on_exit THEN b.scope_fail ELSE b.scope_fail - 1
    IN  Cardinality({i \in 1..last : b.reads[i]})

\* an exception reaches the try block of _ddcci_monitors
ProbeRaises(name0, b) ==
    \/ is_unknown(name0) /\ b.cap = "raise"
    \/ b.scope_fail > 0

\* the name after the optional update_cap(force=True)
ProbedName(name0, b) ==
    IF is_unknown(name0) /\ b.cap \in CapModels THEN b.cap ELSE name0

\* _ddcci_monitors: m_impl is appended unless an exception was raised; the
\* value returned by get_brightness(force=True) is not looked at
ProbeAppends(name0, b) == ~ProbeRaises(name0, b)

\* one iteration of the loop of _ddcci_monitors
ProbeChannel ==
    /\ disc_pc = "probe"
    /\ Len(probe_log) < Len(vcps)
    /\ LET ch == Len(probe_log) + 1
           name0 == InitialName(vcps[ch])
       IN  \E b \in ProbeBehaviours :
             \* a scope exit raises on Windows only; attempts after the
             \* failing scope do not happen
             /\ b.on_exit => (disc_os = "Windows" /\ b.scope_fail > 0)
             /\ \A i \in 1..DDC_max_tries :
                   (b.scope_fail > 0 /\ i > b.scope_fail) => ~b.reads[i]
             /\ (b.scope_fail > 0 /\ ~b.on_exit) => ~b.reads[b.scope_fail]
             /\ (~is_unknown(name0)) => b.cap = "fail"
             \* LinuxVCP.get_vcp_capabilities never returns a string
             /\ disc_os = "Linux" => b.cap \notin CapModels
             /\ (is_unknown(name0) /\ b.cap = "raise") =>
                   (b.scope_fail = 0 /\ \A i \in 1..DDC_max_tries : ~b.reads[i])
             /\ probe_log' = Append(probe_log,
                    [raised |-> ProbeRaises(name0, b),
                     answered |-> Answered(b) > 0,
                     name |-> ProbedName(name0, b)])
             /\ all_ddcci' = IF ProbeAppends(name0, b)
                             THEN Append(all_ddcci, Monitor("DDCCI", ProbedName(name0, b), ch))
                             ELSE all_ddcci
    /\ UNCHANGED <<disc_os, usb_devices, has_wmi, disc_pc, usb_monitors, vcps,
                   internal_monitors, disc_result>>
    /\ UNCHANGED notDisc

\* _ddcci_monitors returns; _internal_monitors
InternalMonitors ==
    /\ disc_pc \in {"probe", "internal"}
    /\ Len(probe_log) = Len(vcps)
    /\ internal_monitors' = IF disc_os = "Windows" /\ has_wmi
                            THEN <<Monitor("WMI", "Internal", 0)>> ELSE <<>>
    /\ disc_pc' = "merge"
    /\ UNCHANGED <<disc_os, usb_devices, has_wmi, usb_monitors, vcps, all_ddcci,
                   probe_log, disc_result>>
    /\ UNCHANGED notDisc

\* the groups are returned in another order
ReturnMonitors_ddc_first ==
    /\ disc_pc = "merge"
    /\ disc_result' = DedupDDCCI(all_ddcci, usb_monitors) \o usb_monitors \o internal_monitors
    /\ disc_pc' = "done"
    /\ UNCHANGED <<disc_os, usb_devices, has_wmi, usb_monitors, vcps, all_ddcci,
                   probe_log, internal_monitors>>
    /\ UNCHANGED notDisc

\* get_supported_monitors: deduplicate and return
ReturnMonitors ==
    /\ disc_pc = "merge"
    /\ disc_result' = usb_monitors \o DedupDDCCI(all_ddcci, usb_monitors) \o internal_monitors
    /\ disc_pc' = "done"
    /\ UNCHANGED <<disc_os, usb_devices, has_wmi, usb_monitors, vcps, all_ddcci,
                   probe_log, internal_monitors>>
    /\ UNCHANGED notDisc


(***************************************************************************)
(* Monitor handles: MonitorDDCCI on LinuxVCP / WindowsVCP, M27Q and        *)
(* WMIMonitor, called by one thread (Spec) or by two (SpecUSB2, SpecDDC2). *)
(***************************************************************************)
MaxCalls == 2
M27Q_max_tries == 9
DevMax == 100                   \* maximum a monitor reports for luminance

Threads == {1, 2}
BrightVals == {50, 52}          \* brightness values a device returns
SetVals == {52, 120}            \* brightness values a caller asks for

\* ui: the call is the one BrightifyApp.__connect_monitor makes
Ops ==
    [name : {"get"}, blocking : BOOLEAN, force : BOOLEAN, value : {None}, ui : {FALSE}]
    \cup [name : {"set"}, blocking : BOOLEAN, force : BOOLEAN, value : SetVals, ui : {FALSE}]
NoOp == [name |-> "none", blocking |-> FALSE, force |-> FALSE, value |-> None, ui |-> FALSE]

\* monitor.get_brightness(force=True) of __connect_monitor
ConnectOp == [name |-> "get", blocking |-> FALSE, force |-> TRUE, value |-> None, ui |-> TRUE]

\* update_cap exists on MonitorDDCCI only
OpsOf(k) ==
    IF k = "DDCCI"
    THEN Ops \cup [name : {"update_cap"}, blocking : {FALSE}, force : BOOLEAN,
                   value : {None}, ui : {FALSE}]
    ELSE Ops

\* max_tries = 1 if not blocking and not force else self.max_tries;
\* update_cap: num_tries = 1 if not force else self.max_tries
MaxTries(o, k) ==
    IF o.name = "update_cap" THEN (IF o.force THEN k ELSE 1)
    ELSE IF ~o.blocking /\ ~o.force THEN 1 ELSE k

Count(v, vs) == Cardinality({i \in 1..Len(vs) : vs[i] = v})
Range(vs) == {vs[i] : i \in 1..Len(vs)}

\* the value read last is taken instead of the most frequent one
MajorityBrightness_last(vs) == {vs[Len(vs)]}

\* max(set(brightness_values), key=brightness_values.count): a value of the
\* highest count; among several of them the iteration order of the set decides
MajorityBrightness(vs) ==
    {v \in Range(vs) : \A w \in Range(vs) : Count(v, vs) >= Count(w, vs)}

\* what one step does on the wire: xfer is "write" or "read" when a transfer
\* was delivered to the device, stamp says last_interaction_ns was assigned
IO(x, st) == [xfer |-> x, stamp |-> st]
NoIO == IO("none", FALSE)

\* what a read can do: deliver a value of rv, or fail in one of the ways errs
Outcomes(rv, errs) == [v : rv, err : {""}] \cup [v : {None}, err : errs]

\* no __del__ has run
DelIdle ==
    /\ del_log = <<>>
    /\ foreign = {}

\* MonitorWorker.__init__: an empty store, nothing emitted
WorkerIdle ==
    /\ request_store = None
    /\ sig_queue = 0
    /\ w_pc = "idle"
    /\ w_val = None
    /\ requested = <<>>
    /\ handed = <<>>
    /\ ticks = 0

\* SensorComm after construction: no sample, nothing handed out
SensorIdle ==
    /\ measurements = <<>>
    /\ s_pc = "idle"
    /\ arrived = <<>>
    /\ ui_taken = FALSE
    /\ ui_list = <<>>
    /\ ui_shared = FALSE
    /\ ui_seen = <<>>

ExtIdle == DelIdle /\ WorkerIdle /\ transfers = <<>> /\ SensorIdle

\* handle_action of a row, on the UI thread: request_change(monitor, value)
\* and update_signal.emit(row, False).  A worker step between the two
\* statements acts as it would before both, the signal not being queued yet.
HandleAction(v) ==
    /\ request_store' = v
    /\ requested' = Append(requested, v)
    /\ sig_queue' = sig_queue + 1
    /\ UNCHANGED <<w_pc, w_val, handed, ticks>>

\* no handle is being called
MonQuiet ==
    /\ kind = "none"
    /\ host_os = "Linux"
    /\ pc = [t \in Threads |-> "idle"]
    /\ op = [t \in Threads |-> NoOp]
    /\ tries = [t \in Threads |-> 0]
    /\ values = [t \in Threads |-> <<>>]
    /\ ret = [t \in Threads |-> None]
    /\ leave = [t \in Threads |-> ""]
    /\ calls = 0
    /\ vcp_handle = None
    /\ in_context = FALSE
    /\ os_open = {}
    /\ next_handle = 0
    /\ code_max = None
    /\ mon_name = default_name
    /\ lock = 0
    /\ usb_ready = FALSE
    /\ wire_owner = 0
    /\ wire = NoIO
    /\ wire_quiet = TRUE
    /\ busy = [t \in Threads |-> FALSE]
    /\ last_returned = None

MonIdle == MonQuiet /\ slider = None /\ ExtIdle

\* state after construction of one handle: MonitorBase.__init__,
\* MonitorDDCCI.__init__ / MonitorUSB.__init__ / WMIMonitor.__init__
InitMon(kinds) ==
    /\ kind \in kinds
    /\ host_os \in (IF kind = "DDCCI" THEN {"Linux", "Windows"}
                    ELSE IF kind = "WMI" THEN {"Windows"} ELSE {"Linux"})
    /\ pc = [t \in Threads |-> "idle"]
    /\ op = [t \in Threads |-> NoOp]
    /\ tries = [t \in Threads |-> 0]
    /\ values = [t \in Threads |-> <<>>]
    /\ ret = [t \in Threads |-> None]
    /\ leave = [t \in Threads |-> ""]
    /\ calls = 0
    /\ vcp_handle = None
    /\ in_context = FALSE
    /\ os_open = {}
    /\ next_handle = 0
    /\ code_max = None
    /\ mon_name = default_name
    /\ lock = 0
    /\ usb_ready = FALSE
    /\ wire_owner = 0
    /\ wire = NoIO
    /\ wire_quiet = TRUE
    /\ busy = [t \in Threads |-> FALSE]
    /\ last_returned = None
    /\ slider = None
    /\ ExtIdle
    /\ last_get_brightness = None
    /\ last_set_brightness = None

\* a thread calls get_brightness, set_brightness or update_cap
Call(t) ==
    /\ pc[t] = "idle"
    /\ calls < MaxCalls
    /\ \E o \in OpsOf(kind) :
          /\ op' = [op EXCEPT ![t] = o]
          /\ pc' = [pc EXCEPT ![t] =
                      IF kind = "DDCCI" THEN "ddc_enter"
                      ELSE IF kind = "M27Q" THEN "usb_loop" ELSE "wmi_call"]
    /\ tries' = [tries EXCEPT ![t] = 0]
    /\ values' = [values EXCEPT ![t] = <<>>]
    /\ ret' = [ret EXCEPT ![t] = None]
    /\ leave' = [leave EXCEPT ![t] = ""]
    /\ calls' = calls + 1
    /\ busy' = [busy EXCEPT ![t] = FALSE]
    /\ wire' = NoIO
    /\ UNCHANGED <<wire_quiet, kind, host_os, ddcVars, usbVars, baseVars, estVars, discVars, protoVars, uiVars, last_returned>>

\* BrightifyApp.__connect_monitor:
\*   monitor.last_get_brightness =
\*       monitor.last_get_brightness or monitor.get_brightness(force=True)
\* a cached value that is not falsy is assigned to itself; otherwise the forced
\* get is made, and Return assigns its result
Connect(t) ==
    /\ pc[t] = "idle"
    /\ calls < MaxCalls
    /\ calls' = calls + 1
    /\ wire' = NoIO
    /\ IF last_get_brightness \notin {None, 0}
       THEN /\ slider' = last_get_brightness
            /\ HandleAction(last_get_brightness)
            /\ UNCHANGED <<pc, op>>
       ELSE /\ op' = [op EXCEPT ![t] = ConnectOp]
            /\ pc' = [pc EXCEPT ![t] =
                        IF kind = "DDCCI" THEN "ddc_enter"
                        ELSE IF kind = "M27Q" THEN "usb_loop" ELSE "wmi_call"]
            /\ UNCHANGED <<slider, workerVars>>
    /\ UNCHANGED <<tries, values, ret, leave, busy, wire_quiet, kind, host_os,
                   ddcVars, usbVars, baseVars, estVars, discVars, protoVars, last_returned,
                   delVars, transfers, sensorVars>>

\* the caller has its result (or the exception) and may call again; the
\* caller of a connecting get assigns the result to last_get_brightness
Return(t) ==
    /\ pc[t] \in {"done", "raised"}
    /\ pc' = [pc EXCEPT ![t] = "idle"]
    /\ op' = [op EXCEPT ![t] = NoOp]
    /\ tries' = [tries EXCEPT ![t] = 0]
    /\ values' = [values EXCEPT ![t] = <<>>]
    /\ ret' = [ret EXCEPT ![t] = None]
    /\ leave' = [leave EXCEPT ![t] = ""]
    /\ busy' = [busy EXCEPT ![t] = FALSE]
    /\ wire' = NoIO
    /\ last_returned' = IF pc[t] = "done" /\ op[t].name = "get" /\ ret[t] # None
                        THEN ret[t] ELSE last_returned
    /\ last_get_brightness' = IF pc[t] = "done" /\ op[t].ui
                              THEN ret[t] ELSE last_get_brightness
    /\ slider' = IF op[t].ui
                 THEN (IF pc[t] = "done" THEN ret[t] ELSE None)
                 ELSE slider
    /\ IF op[t].ui /\ pc[t] = "done" /\ ret[t] # None
       THEN HandleAction(ret[t])
       ELSE UNCHANGED workerVars
    /\ UNCHANGED <<last_set_brightness, wire_quiet, calls, kind, host_os, ddcVars, usbVars,
                   estVars, discVars, protoVars, delVars, transfers, sensorVars>>

\* brightness values of the row
UIVals == {0, 50}

\* samples the sensor hands to a row
UIReadings == {<<>>, <<-3>>, <<40>>}

\* BrightifyApp.__update_row_from_sensor on a connected row with the
\* automatic mode ticked, the sensor holding the samples rs: a proposal is
\* shown and goes through handle_action
RowFromSensor(rs) ==
    LET brightness == convert_sensor_readings(rs, last_get_brightness)
    IN  /\ readings' = rs
        /\ est_result' = brightness
        /\ est_pc' = "done"
        /\ slider' = IF brightness # None THEN brightness ELSE slider
        /\ IF brightness # None
           THEN /\ request_store' = brightness
                /\ requested' = Append(requested, brightness)
                /\ sig_queue' = sig_queue + 1
           ELSE UNCHANGED <<request_store, requested, sig_queue>>
        /\ ticks' = ticks + 1
        /\ UNCHANGED <<w_pc, w_val, handed>>
        /\ UNCHANGED <<baseVars, discVars, monVars, protoVars, delVars, transfers, sensorVars>>

\* the first timeout of the sensor timer
UpdateRowFromSensor ==
    /\ slider # None
    /\ est_pc = "off"
    /\ \E rs \in UIReadings : RowFromSensor(rs)

MaxTicks == 3
MaxRequests == 3

\* the estimator is iterating over the list it was given
Iterating == ui_taken /\ est_pc = "off"

\* the iteration has reached the end of the list: the rest of
\* convert_sensor_readings and of __update_row_from_sensor
UIFinish ==
    /\ Iterating
    /\ Len(ui_seen) >= Len(ui_list)
    /\ RowFromSensor(ui_seen)

\* a later timeout of the sensor timer, the samples unchanged
SensorTick ==
    /\ slider # None
    /\ est_pc = "done"
    /\ ticks < MaxTicks
    /\ Len(requested) < MaxRequests
    /\ RowFromSensor(readings)

\* the user moves the slider of the row: handle_action
UserAction ==
    /\ slider # None
    /\ Len(requested) < MaxRequests
    /\ \E v \in UIVals :
          /\ slider' = v
          /\ HandleAction(v)
    /\ UNCHANGED <<baseVars, estVars, discVars, monVars, protoVars, delVars, transfers, sensorVars>>

\* MonitorWorker._update starts on the worker thread and reads the store
WorkerTake ==
    /\ w_pc = "idle"
    /\ sig_queue > 0
    /\ sig_queue' = sig_queue - 1
    /\ IF request_store # None
       THEN /\ w_val' = request_store
            /\ w_pc' = "clear"
       ELSE UNCHANGED <<w_val, w_pc>>
    /\ UNCHANGED <<request_store, requested, handed, ticks>>
    /\ UNCHANGED <<baseVars, estVars, discVars, monVars, protoVars, delVars, slider, transfers, sensorVars>>

\* self.__request_store[monitor] = None
WorkerClear ==
    /\ w_pc = "clear"
    /\ request_store' = None
    /\ w_pc' = "set"
    /\ UNCHANGED <<sig_queue, w_val, requested, handed, ticks>>
    /\ UNCHANGED <<baseVars, estVars, discVars, monVars, protoVars, delVars, slider, transfers, sensorVars>>

\* monitor.set_brightness(brightness, blocking=True), which assigns
\* last_set_brightness when it takes the write for delivered
WorkerSet ==
    /\ w_pc = "set"
    /\ handed' = Append(handed, w_val)
    /\ \E delivered \in BOOLEAN :
          last_set_brightness' = IF delivered THEN w_val ELSE last_set_brightness
    /\ w_pc' = "idle"
    /\ w_val' = None
    /\ UNCHANGED <<request_store, sig_queue, requested, ticks>>
    /\ UNCHANGED <<last_get_brightness, estVars, discVars, monVars, protoVars, delVars, slider, transfers, sensorVars>>


(***************************************************************************)
(* SensorComm.update on the sensor thread and the estimator reading        *)
(* SensorComm.measurements on the UI thread.                               *)
(***************************************************************************)
num_measurements == 2
MaxArrived == 4
SensorVals == {10, 40}

\* the list keeps its first n samples
KeepFirst(list, n) == SubSeq(list, 1, Min2(n, Len(list)))

\* measurements[-num_measurements:]
LastN(list, n) ==
    IF n = 0 \/ Len(list) <= n THEN list
    ELSE SubSeq(list, Len(list) - n + 1, Len(list))

\* SensorComm.update up to the trimming statement: without a serial port
\* __cleanup clears the list in place and update returns; else a reading,
\* if there is one, is appended in place
SensorUpdate ==
    /\ s_pc = "idle"
    /\ \E has_serial \in BOOLEAN, got \in BOOLEAN, v \in SensorVals :
          IF ~has_serial
          THEN /\ measurements' = <<>>
               /\ arrived' = <<>>
               /\ ui_list' = IF ui_taken /\ ui_shared THEN <<>> ELSE ui_list
               /\ UNCHANGED s_pc
          ELSE IF got /\ Len(arrived) < MaxArrived
          THEN /\ measurements' = Append(measurements, v)
               /\ arrived' = Append(arrived, v)
               /\ ui_list' = IF ui_taken /\ ui_shared THEN Append(ui_list, v) ELSE ui_list
               /\ s_pc' = "trim"
          ELSE /\ s_pc' = "trim"
               /\ UNCHANGED <<measurements, arrived, ui_list>>
    /\ UNCHANGED <<ui_taken, ui_shared, ui_seen>>
    /\ UNCHANGED <<baseVars, estVars, discVars, monVars, protoVars, slider, delVars,
                   workerVars, transfers>>

\* self.measurements = self.measurements[-self.num_measurements:]: the
\* attribute is bound to a new list
SensorTrim ==
    /\ s_pc = "trim"
    /\ measurements' = LastN(measurements, num_measurements)
    /\ ui_shared' = FALSE
    /\ s_pc' = "idle"
    /\ UNCHANGED <<arrived, ui_taken, ui_list, ui_seen>>
    /\ UNCHANGED <<baseVars, estVars, discVars, monVars, protoVars, slider, delVars,
                   workerVars, transfers>>

\* __update_ui_from_sensor: measurements is not empty, and
\* __update_row_from_sensor passes the list itself to convert_sensor_readings
UITake ==
    /\ slider # None
    /\ est_pc = "off"
    /\ ~ui_taken
    /\ measurements # <<>>
    /\ ui_taken' = TRUE
    /\ ui_list' = measurements
    /\ ui_shared' = TRUE
    /\ ui_seen' = <<>>
    /\ UNCHANGED <<measurements, s_pc, arrived>>
    /\ UNCHANGED <<baseVars, estVars, discVars, monVars, protoVars, slider, delVars,
                   workerVars, transfers>>

\* map(measurement_to_brightness, readings) takes the next element
UINext ==
    /\ Iterating
    /\ Len(ui_seen) < Len(ui_list)
    /\ ui_seen' = Append(ui_seen, ui_list[Len(ui_seen) + 1])
    /\ UNCHANGED <<measurements, s_pc, arrived, ui_taken, ui_list, ui_shared>>
    /\ UNCHANGED <<baseVars, estVars, discVars, monVars, protoVars, slider, delVars,
                   workerVars, transfers>>


(***************************************************************************)
(* Cleanup: MonitorUSB.__del__, MonitorDDCCI.__del__ with LinuxVCP.close,  *)
(* WMIMonitor.__del__.  It is called by clear_rows, by atexit (MonitorUSB) *)
(* and by the garbage collector.                                           *)
(***************************************************************************)
MaxDel == 2

\* MonitorUSB.__device is not None
DeviceHeld == kind = "M27Q" /\ \A i \in 1..Len(del_log) : del_log[i] # "usb"

\* one __del__ of the handle, no call being in progress.
\*   "usb":        device.close() and __device = None
\*   "own":        os.close(fd) of a descriptor the channel holds
\*   "foreign":    os.close(fd) of a number the channel closed before and
\*                 that now names another open file
\*   "ebadf":      os.close(fd) of a closed number, OSError swallowed
\*   "attr_error": WindowsVCP has no close(); AttributeError is logged
\*   "none":       nothing to release
Del ==
    /\ \A t \in Threads : pc[t] = "idle"
    /\ Len(del_log) < MaxDel
    /\ LET did == IF kind = "M27Q"
                  THEN (IF DeviceHeld THEN "usb" ELSE "none")
                  ELSE IF kind = "DDCCI" /\ host_os = "Windows" THEN "attr_error"
                  ELSE IF kind = "DDCCI"
                  THEN (IF vcp_handle = None THEN "none"
                        ELSE IF vcp_handle \in os_open THEN "own"
                        ELSE IF vcp_handle \in foreign THEN "foreign"
                        ELSE "ebadf")
                  ELSE "none"
       IN  /\ del_log' = Append(del_log, did)
           /\ os_open' = IF did = "own" THEN os_open \ {vcp_handle} ELSE os_open
           /\ foreign' = IF did = "foreign" THEN foreign \ {vcp_handle} ELSE foreign
    /\ wire' = NoIO
    /\ UNCHANGED <<threadVars, vcp_handle, in_context, next_handle, code_max,
                   mon_name, kind, host_os, usbVars, wire_quiet, busy, last_returned,
                   baseVars, estVars, discVars, protoVars, slider, workerVars, transfers, sensorVars>>

\* another part of the process opens a file (the channel of a monitor found
\* by a new discovery pass, the serial port of the sensor) and the OS hands
\* out a descriptor number that this channel has closed
ForeignOpen ==
    /\ kind = "DDCCI" /\ host_os = "Linux"
    /\ \E n \in 1..next_handle :
          /\ n \notin os_open
          /\ n \notin foreign
          /\ foreign' = foreign \cup {n}
    /\ wire' = NoIO
    /\ UNCHANGED <<threadVars, ddcVars, kind, host_os, usbVars, wire_quiet, busy,
                   last_returned, baseVars, estVars, discVars, protoVars, slider, del_log,
                   workerVars, transfers, sensorVars>>


(***************************************************************************)
(* M27Q (MonitorUSB).                                                      *)
(***************************************************************************)
\* force implies blocking
Blocking(o) == o.blocking \/ o.force

\* _get / _set run get_osd / set_osd without taking self.lock
LockFree_ignored(t) == TRUE

\* with self.lock: the lock can be taken
LockFree(t) == lock = 0

\* the device is taken to be ready whenever it is asked
is_ready_always == TRUE

\* MonitorUSB.is_ready
is_ready == usb_ready

\* time passes: usb_delay_ns have elapsed since last_interaction_ns
Tick ==
    /\ kind = "M27Q"
    /\ ~usb_ready \/ ~wire_quiet
    /\ usb_ready' = TRUE
    /\ wire_quiet' = TRUE
    /\ wire' = NoIO
    /\ UNCHANGED <<busy, lock, wire_owner, kind, host_os, threadVars, ddcVars,
                   baseVars, estVars, discVars, protoVars, uiVars, last_returned>>

\* head of the retry loop of M27Q.get_brightness / set_brightness, and the
\* code after the loop
UsbLoop(t) ==
    /\ pc[t] = "usb_loop"
    /\ IF tries[t] >= MaxTries(op[t], M27Q_max_tries)
       THEN /\ pc' = [pc EXCEPT ![t] = "done"]
            /\ IF op[t].name = "get" /\ op[t].force /\ values[t] # <<>>
               THEN \E m \in MajorityBrightness(values[t]) :
                       /\ last_get_brightness' = m
                       /\ ret' = [ret EXCEPT ![t] = m]
               ELSE UNCHANGED <<last_get_brightness, ret>>
            /\ UNCHANGED <<tries, busy>>
       ELSE IF Blocking(op[t])
       THEN /\ pc' = [pc EXCEPT ![t] = "usb_wait"]
            /\ UNCHANGED <<last_get_brightness, ret, tries, busy>>
       ELSE IF is_ready
       THEN /\ pc' = [pc EXCEPT ![t] = "usb_xfer"]
            /\ busy' = [busy EXCEPT ![t] = ~usb_ready]
            /\ UNCHANGED <<last_get_brightness, ret, tries>>
       ELSE /\ tries' = [tries EXCEPT ![t] = @ + 1]
            /\ busy' = [busy EXCEPT ![t] = ~usb_ready]
            /\ UNCHANGED <<last_get_brightness, ret, pc>>
    /\ wire' = NoIO
    /\ UNCHANGED <<wire_quiet, op, values, leave, calls, last_set_brightness, kind, host_os,
                   ddcVars, usbVars, estVars, discVars, protoVars, uiVars, last_returned>>

\* wait(): spin until is_ready()
UsbWait(t) ==
    /\ pc[t] = "usb_wait"
    /\ is_ready
    /\ pc' = [pc EXCEPT ![t] = "usb_xfer"]
    /\ wire' = NoIO
    /\ UNCHANGED <<wire_quiet, busy, op, tries, values, ret, leave, calls, kind, host_os, ddcVars,
                   usbVars, baseVars, estVars, discVars, protoVars, uiVars, last_returned>>

\* _get / _set take the lock; get_osd / set_osd call usb_write.  "ok": the
\* control write was made; "no_handle": the device could not be opened;
\* "usb_error": usb1.USBError, logged; "error": any other exception, which
\* _get / _set catch after the lock is released.
UsbWrite(t) ==
    /\ pc[t] = "usb_xfer"
    /\ LockFree(t)
    /\ wire_owner' = t
    /\ \E out \in {"ok", "no_handle", "usb_error", "error"} :
          /\ usb_ready' = IF out \in {"ok", "usb_error"} THEN FALSE ELSE usb_ready
          /\ wire' = IO(IF out = "ok" THEN "write" ELSE "none", out \in {"ok", "usb_error"})
          /\ wire_quiet' = IF out = "ok" THEN FALSE ELSE wire_quiet
          /\ IF out = "error"
             THEN /\ lock' = 0
                  /\ tries' = [tries EXCEPT ![t] = @ + 1]
                  /\ pc' = [pc EXCEPT ![t] = "usb_loop"]
                  /\ UNCHANGED last_set_brightness
             ELSE IF op[t].name = "get"
             THEN /\ lock' = t
                  /\ pc' = [pc EXCEPT ![t] = "usb_read"]
                  /\ UNCHANGED <<tries, last_set_brightness>>
             ELSE /\ lock' = 0
                  /\ last_set_brightness' = clamp_brightness(op[t].value)
                  /\ pc' = [pc EXCEPT ![t] = "done"]
                  /\ UNCHANGED tries
    /\ leave' = [leave EXCEPT ![t] =
                   IF pc'[t] = "done" THEN "return" ELSE @]
    /\ UNCHANGED <<busy, op, values, ret, calls, last_get_brightness, kind,
                   host_os, ddcVars, estVars, discVars, protoVars, uiVars, last_returned>>

\* get_osd calls usb_read and returns data[10]; the lock is released.  A value
\* of rv: the read was made; "no_handle", "usb_error": usb_read returns None;
\* "short": the read was made but data[10] raises, which _get catches.
UsbRead(t, rv) ==
    /\ pc[t] = "usb_read"
    /\ wire_owner' = t
    /\ lock' = 0
    /\ \E out \in Outcomes(rv, {"no_handle", "usb_error", "short"}) :
          /\ usb_ready' = IF out.err \in {"", "short"} THEN FALSE ELSE usb_ready
          /\ wire' = IF out.err \in {"", "short"} THEN IO("read", TRUE) ELSE NoIO
          /\ wire_quiet' = IF out.err \in {"", "short"} THEN FALSE ELSE wire_quiet
          /\ IF out.err = ""
             THEN /\ values' = [values EXCEPT ![t] = Append(@, out.v)]
                  /\ IF op[t].force
                     THEN /\ tries' = [tries EXCEPT ![t] = @ + 1]
                          /\ pc' = [pc EXCEPT ![t] = "usb_loop"]
                          /\ UNCHANGED <<last_get_brightness, ret>>
                     ELSE /\ last_get_brightness' = out.v
                          /\ ret' = [ret EXCEPT ![t] = out.v]
                          /\ pc' = [pc EXCEPT ![t] = "done"]
                          /\ UNCHANGED tries
             ELSE /\ tries' = [tries EXCEPT ![t] = @ + 1]
                  /\ pc' = [pc EXCEPT ![t] = "usb_loop"]
                  /\ UNCHANGED <<values, last_get_brightness, ret>>
    /\ leave' = [leave EXCEPT ![t] =
                   IF pc'[t] = "done" THEN "return" ELSE @]
    /\ UNCHANGED <<busy, op, calls, last_set_brightness, kind, host_os, ddcVars,
                   estVars, discVars, protoVars, uiVars, last_returned>>

(***************************************************************************)
(* WMIMonitor.                                                             *)
(***************************************************************************)
\* WMIMonitor.get_brightness / set_brightness: the WMI call is made without
\* a handler, so wmi.x_wmi reaches the caller
WmiCall(t, rv) ==
    /\ pc[t] = "wmi_call"
    /\ \E out \in Outcomes(rv, {"x_wmi"}) :
          IF out.err = "x_wmi"
          THEN /\ pc' = [pc EXCEPT ![t] = "raised"]
               /\ wire' = NoIO
               /\ UNCHANGED <<ret, baseVars>>
          ELSE /\ pc' = [pc EXCEPT ![t] = "done"]
               /\ wire' = IO(IF op[t].name = "get" THEN "read" ELSE "write", FALSE)
               /\ IF op[t].name = "get"
                  THEN /\ last_get_brightness' = out.v
                       /\ ret' = [ret EXCEPT ![t] = out.v]
                       /\ UNCHANGED last_set_brightness
                  ELSE /\ last_set_brightness' = op[t].value
                       /\ UNCHANGED <<last_get_brightness, ret>>
    /\ UNCHANGED <<wire_quiet, busy, op, tries, values, leave, calls, kind, host_os, ddcVars,
                   usbVars, estVars, discVars, protoVars, uiVars, last_returned>>

(***************************************************************************)
(* MonitorDDCCI on a VCP backend.                                          *)
(***************************************************************************)
\* the channel can carry a request: LinuxVCP is in its context (the file
\* descriptor is never closed), WindowsVCP's handle has not been destroyed
Usable ==
    IF host_os = "Linux" THEN in_context ELSE vcp_handle \in os_open

\* `with self.vcp:` -- LinuxVCP.__enter__ / WindowsVCP.__enter__.
\* "ok": the handle is open; "open_fails": os.open or
\* GetPhysicalMonitorsFromHMONITOR failed; "probe_fails" (Linux): ioctl or
\* read_bytes(1) failed after os.open.  A failure raises a VCPError, which no
\* method of MonitorDDCCI catches.
VcpEnter(t) ==
    /\ pc[t] = "ddc_enter"
    /\ in_context' = IF host_os = "Linux" THEN TRUE ELSE in_context
    /\ \E out \in {"ok", "open_fails"} \cup
                  (IF host_os = "Linux" THEN {"probe_fails"} ELSE {}) :
          /\ IF out = "open_fails"
             THEN UNCHANGED <<vcp_handle, os_open, next_handle>>
             ELSE /\ next_handle' = next_handle + 1
                  /\ vcp_handle' = next_handle + 1
                  /\ os_open' = os_open \cup {next_handle + 1}
          /\ pc' = [pc EXCEPT ![t] = IF out = "ok" THEN "ddc_body" ELSE "raised"]
    /\ wire' = NoIO
    /\ UNCHANGED <<wire_quiet, busy, op, tries, values, ret, leave, calls, code_max, mon_name,
                   kind, host_os, usbVars, baseVars, estVars, discVars, protoVars, uiVars, last_returned>>

\* get_brightness: _get_vcp_feature(luminance) inside the scope
VcpGet(t, rv) ==
    /\ pc[t] = "ddc_body"
    /\ op[t].name = "get"
    /\ \E out \in Outcomes(IF Usable THEN rv ELSE {}, {"vcp_error"}) :
          IF out.err = ""
          THEN /\ code_max' = DevMax
               /\ wire' = IO("read", FALSE)
               /\ values' = [values EXCEPT ![t] = Append(@, out.v)]
               /\ IF op[t].force
                  THEN UNCHANGED <<last_get_brightness, ret, leave>>
                  ELSE /\ last_get_brightness' = out.v
                       /\ ret' = [ret EXCEPT ![t] = out.v]
                       /\ leave' = [leave EXCEPT ![t] = "return"]
          ELSE /\ wire' = NoIO
               /\ UNCHANGED <<code_max, values, last_get_brightness, ret, leave>>
    /\ pc' = [pc EXCEPT ![t] = "ddc_exit"]
    /\ UNCHANGED <<wire_quiet, busy, op, tries, calls, last_set_brightness, vcp_handle, in_context,
                   os_open, next_handle, mon_name, kind, host_os, usbVars,
                   estVars, discVars, protoVars, uiVars, last_returned>>

\* the value is written whatever the maximum is
WithinMaximum_unchecked(value, maximum) == maximum # None

\* _set_vcp_feature: a continuous code is written only when its maximum is
\* known and the value does not exceed it
WithinMaximum(value, maximum) == maximum # None /\ value <= maximum

\* set_brightness: one pass of the loop, _set_vcp_feature(luminance, value).
\* max_ok: the maximum is cached or its fetch succeeds; write_ok: the
\* SET_VCP write succeeds.
VcpSet(t) ==
    /\ pc[t] = "ddc_body"
    /\ op[t].name = "set"
    /\ \E max_ok \in {code_max # None} \cup (IF Usable THEN {TRUE} ELSE {}) \cup {FALSE},
          write_ok \in (IF Usable THEN {TRUE} ELSE {}) \cup {FALSE} :
          LET maximum == IF code_max # None THEN code_max
                         ELSE IF max_ok THEN DevMax ELSE None
              written == WithinMaximum(op[t].value, maximum) /\ write_ok
          IN  /\ code_max' = maximum
              /\ wire' = IO(IF written THEN "write"
                            ELSE IF code_max = None /\ max_ok THEN "read"
                            ELSE "none", FALSE)
              /\ IF written
                 THEN /\ last_set_brightness' = op[t].value
                      /\ leave' = [leave EXCEPT ![t] = "return"]
                      /\ pc' = [pc EXCEPT ![t] = "ddc_exit"]
                      /\ UNCHANGED tries
                 ELSE /\ tries' = [tries EXCEPT ![t] = @ + 1]
                      /\ pc' = [pc EXCEPT ![t] =
                                  IF tries[t] + 1 >= MaxTries(op[t], DDC_max_tries)
                                  THEN "ddc_exit" ELSE "ddc_body"]
                      /\ UNCHANGED <<last_set_brightness, leave>>
    /\ UNCHANGED <<wire_quiet, busy, op, values, ret, calls, last_get_brightness, vcp_handle,
                   in_context, os_open, next_handle, mon_name, kind, host_os,
                   usbVars, estVars, discVars, protoVars, uiVars, last_returned>>

\* update_cap: one pass of the loop.  "vcp_error": get_vcp_capabilities
\* raised VCPError; "parse_error": parse_capabilities raised (ValueError,
\* KeyError), which update_cap does not catch; else the model field of the
\* parsed string, "" when the string has none.  LinuxVCP.get_vcp_capabilities
\* has no path that returns a string (see caps_round), so on Linux every
\* fetch raises.
VcpUpdateCap(t) ==
    /\ pc[t] = "ddc_body"
    /\ op[t].name = "update_cap"
    /\ \E out \in (IF Usable /\ host_os = "Windows"
                   THEN CapModels \cup {"parse_error"} ELSE {}) \cup {"vcp_error"} :
          /\ mon_name' = IF out \in CapModels THEN out ELSE mon_name
          /\ wire' = IF out = "vcp_error" THEN NoIO ELSE IO("read", FALSE)
          /\ IF out = "parse_error"
             THEN /\ leave' = [leave EXCEPT ![t] = "raise"]
                  /\ pc' = [pc EXCEPT ![t] = "ddc_exit"]
                  /\ UNCHANGED tries
             ELSE /\ tries' = [tries EXCEPT ![t] = @ + 1]
                  /\ pc' = [pc EXCEPT ![t] =
                              IF tries[t] + 1 >= MaxTries(op[t], DDC_max_tries)
                              THEN "ddc_exit" ELSE "ddc_body"]
                  /\ UNCHANGED leave
    /\ UNCHANGED <<wire_quiet, busy, op, values, ret, calls, vcp_handle, in_context, os_open,
                   next_handle, code_max, kind, host_os, usbVars, baseVars,
                   estVars, discVars, protoVars, uiVars, last_returned>>

\* end of the with block -- LinuxVCP.__exit__ clears in_context and leaves the
\* file descriptor open; WindowsVCP.__exit__ destroys self.handle and raises
\* VCPError when that fails -- and what follows it in the method
VcpExit(t) ==
    /\ pc[t] = "ddc_exit"
    /\ in_context' = IF host_os = "Linux" THEN FALSE ELSE in_context
    /\ \E destroyed \in (IF host_os = "Linux" THEN {FALSE}
                         ELSE IF vcp_handle \in os_open THEN {TRUE, FALSE}
                         ELSE {FALSE}) :
          LET raises == leave[t] = "raise" \/ (host_os = "Windows" /\ ~destroyed)
              again == /\ op[t].name = "get"
                       /\ leave[t] = ""
                       /\ tries[t] + 1 < MaxTries(op[t], DDC_max_tries)
              vote == /\ op[t].name = "get"
                      /\ leave[t] = ""
                      /\ ~again
                      /\ op[t].force
                      /\ values[t] # <<>>
          IN  /\ os_open' = IF destroyed THEN os_open \ {vcp_handle} ELSE os_open
              /\ IF raises
                 THEN /\ pc' = [pc EXCEPT ![t] = "raised"]
                      /\ UNCHANGED <<tries, last_get_brightness, ret>>
                 ELSE IF again
                 THEN /\ pc' = [pc EXCEPT ![t] = "ddc_enter"]
                      /\ tries' = [tries EXCEPT ![t] = @ + 1]
                      /\ UNCHANGED <<last_get_brightness, ret>>
                 ELSE IF vote
                 THEN /\ pc' = [pc EXCEPT ![t] = "done"]
                      /\ \E m \in MajorityBrightness(values[t]) :
                            /\ last_get_brightness' = m
                            /\ ret' = [ret EXCEPT ![t] = m]
                      /\ tries' = [tries EXCEPT ![t] = @ + 1]
                 ELSE /\ pc' = [pc EXCEPT ![t] = "done"]
                      /\ tries' = [tries EXCEPT ![t] =
                                     IF op[t].name = "get" /\ leave[t] = ""
                                     THEN @ + 1 ELSE @]
                      /\ UNCHANGED <<last_get_brightness, ret>>
    /\ wire' = NoIO
    /\ UNCHANGED <<wire_quiet, busy, op, values, leave, calls, last_set_brightness, vcp_handle,
                   next_handle, code_max, mon_name, kind, host_os, usbVars,
                   estVars, discVars, protoVars, uiVars, last_returned>>

(***************************************************************************)
(* LinuxVCP: the DDC/CI exchange of get_vcp_feature.  A message is a       *)
(* sequence of bytes.                                                      *)
(***************************************************************************)
GET_VCP_HEADER_LENGTH == 2
PROTOCOL_FLAG == 128
GET_VCP_REPLY == 2
GET_VCP_CAPS_REPLY == 227
GET_VCP_CMD == 1
SET_VCP_CMD == 3
GET_VCP_CAPS_CMD == 243
DDCCI_ADDR == 55
HOST_ADDRESS == 81
LinuxMaxTries == 10             \* LinuxVCP.max_tries

VcpCodes == {16, 18}            \* image_luminance, image_contrast
SourceAddress == 110            \* 0x6E, first byte of a display's answer

\* a ^ b on non-negative integers
RECURSIVE XorN(_, _)
XorN(a, b) ==
    IF a = 0 THEN b
    ELSE IF b = 0 THEN a
    ELSE ((a + b) % 2) + 2 * XorN(a \div 2, b \div 2)

\* get_checksum with the bytes added up modulo 256
RECURSIVE get_checksum_add(_)
get_checksum_add(data) ==
    IF data = <<>> THEN 0 ELSE (data[1] + get_checksum_add(Tail(data))) % 256

\* LinuxVCP.get_checksum: the xor of all bytes
RECURSIVE get_checksum(_)
get_checksum(data) ==
    IF data = <<>> THEN 0 ELSE XorN(data[1], get_checksum(Tail(data)))

\* os.read(fd, n) on the bytes still to come: at most n of them
Take(stream, n) == SubSeq(stream, 1, Min2(n, Len(stream)))
Drop(stream, n) == SubSeq(stream, Min2(n, Len(stream)) + 1, Len(stream))

\* length &= ~PROTOCOL_FLAG
ClearFlag(b) == IF (b \div PROTOCOL_FLAG) % 2 = 1 THEN b - PROTOCOL_FLAG ELSE b

\* get_vcp_feature raised (err names the reason) or returned a pair
Failure(e) == [err |-> e, current |-> None, maximum |-> None]
Result(c, m) == [err |-> "", current |-> c, maximum |-> m]
NoResult == Failure("none")

\* _read_response: the 2-byte header, then length + 1 bytes; "unpack" when
\* secure_unpack("=BB", header) fails on a short header
read_response(stream) ==
    LET header == Take(stream, GET_VCP_HEADER_LENGTH)
    IN  IF Len(header) # GET_VCP_HEADER_LENGTH
        THEN [err |-> "unpack", header |-> header, payload |-> <<>>]
        ELSE [err |-> "", header |-> header,
              payload |-> Take(Drop(stream, GET_VCP_HEADER_LENGTH),
                               ClearFlag(header[2]) + 1)]

\* _validate_response without the checks of the reply code and of the opcode
validate_response_lenient(header, payload, policy, expected_reply_code, expected_opcode) ==
    IF Len(payload) = 0 THEN "unpack"
    ELSE LET body == SubSeq(payload, 1, Len(payload) - 1)
             checksum == payload[Len(payload)]
         IN  IF XorN(checksum, get_checksum(header \o body)) # 0 /\ policy = "strict"
             THEN "checksum"
             ELSE IF Len(body) < 4 THEN "unpack"
             ELSE ""

\* _validate_response with the policy hard-coded to "strict"
validate_response_strict(header, payload, policy, expected_reply_code, expected_opcode) ==
    IF Len(payload) = 0 THEN "unpack"
    ELSE LET body == SubSeq(payload, 1, Len(payload) - 1)
             checksum == payload[Len(payload)]
         IN  IF XorN(checksum, get_checksum(header \o body)) # 0
             THEN "checksum"
             ELSE IF Len(body) < 4 THEN "unpack"
             ELSE IF body[1] # expected_reply_code THEN "reply_code"
             ELSE IF expected_opcode # None /\ body[3] # expected_opcode THEN "opcode"
             ELSE ""

\* _validate_response: "" when the answer passes, else why VCPIOError is
\* raised.  The payload is split into body and checksum here only: the
\* caller keeps the payload it passed.
validate_response(header, payload, policy, expected_reply_code, expected_opcode) ==
    IF Len(payload) = 0 THEN "unpack"
    ELSE LET body == SubSeq(payload, 1, Len(payload) - 1)
             checksum == payload[Len(payload)]
         IN  IF XorN(checksum, get_checksum(header \o body)) # 0 /\ policy = "strict"
             THEN "checksum"
             ELSE IF Len(body) < 4 THEN "unpack"
             ELSE IF body[1] # expected_reply_code THEN "reply_code"
             ELSE IF expected_opcode # None /\ body[3] # expected_opcode THEN "opcode"
             ELSE ""

\* LinuxVCP.get_vcp_feature.  ctx: self.in_context; write_ok: write_bytes of
\* the request succeeded; stream: what the display answers.  The payload
\* unpacked with ">BBBBHH" is the one read, checksum byte included, and
\* struct.unpack wants exactly 8 bytes.
get_vcp_feature(code, policy, ctx, write_ok, stream) ==
    IF ~ctx THEN Failure("not_in_context")
    ELSE IF ~write_ok THEN Failure("write")
    ELSE LET r == read_response(stream)
         IN  IF r.err # "" THEN Failure(r.err)
             ELSE LET v == validate_response(r.header, r.payload, policy,
                                             GET_VCP_REPLY, code)
                  IN  IF v # "" THEN Failure(v)
                      ELSE IF Len(r.payload) # 8 THEN Failure("unpack")
                      ELSE IF r.payload[2] > 0 THEN Failure("result_code")
                      ELSE Result(r.payload[7] * 256 + r.payload[8],
                                  r.payload[5] * 256 + r.payload[6])

\* the 8 data bytes of a GET_VCP reply
ReplyBody(reply_code, result_code, opcode, maximum, current) ==
    <<reply_code, result_code, opcode, 0,
      (maximum \div 256), (maximum % 256), (current \div 256), (current % 256)>>

\* an answer: source address, length byte, data bytes, checksum byte; the
\* checksum is the xor of the bytes before it, or differs from it
ReplyWith(length_byte, body, good) ==
    LET head == <<SourceAddress, length_byte>>
        cs == get_checksum(head \o body)
    IN  head \o body \o <<IF good THEN cs ELSE XorN(cs, 80)>>

\* answers a display can give: the length byte announces the 8 data bytes
\* (0x88) or one byte less (0x87); no answer; a cut-off answer
Replies ==
    {ReplyWith(l, ReplyBody(rc, res, opc, 100, cur), good) :
        l \in {136, 135}, rc \in {GET_VCP_REPLY, GET_VCP_CAPS_REPLY},
        res \in {0, 1}, opc \in VcpCodes, cur \in {50, 260}, good \in BOOLEAN}
    \cup {<<>>, <<SourceAddress>>}

\* len(data) | PROTOCOL_FLAG
OrFlag(n) == IF (n \div PROTOCOL_FLAG) % 2 = 1 THEN n ELSE n + PROTOCOL_FLAG

\* struct.pack("H", arg), appended high byte first; arg in 0..65535
RECURSIVE ArgBytes(_)
ArgBytes(args) ==
    IF args = <<>> THEN <<>>
    ELSE <<(args[1] \div 256) % 256, args[1] % 256>> \o ArgBytes(Tail(args))

\* _prepare_data with the checksum taken over the frame alone
prepare_data_plain(cmd, args) ==
    LET data == <<cmd>> \o ArgBytes(args)
        framed == <<HOST_ADDRESS, OrFlag(Len(data))>> \o data
    IN  framed \o <<get_checksum(framed)>>

\* LinuxVCP._prepare_data(cmd, *args)
prepare_data(cmd, args) ==
    LET data == <<cmd>> \o ArgBytes(args)
        framed == <<HOST_ADDRESS, OrFlag(Len(data))>> \o data
    IN  framed \o <<get_checksum(<<DDCCI_ADDR * 2>> \o framed)>>

\* capability strings a display may hold: "", "()", "(A)", "(AB)(C)"
CapStrings == {<<>>, <<40, 41>>, <<40, 65, 41>>, <<40, 65, 66, 41, 40, 67, 41>>}

\* most bytes of the string a display puts into one answer
MaxFrag == 3

\* the part of the string a display sends for offset o, at most n bytes
Fragment(caps, o, n) ==
    IF o >= Len(caps) THEN <<>>
    ELSE SubSeq(caps, o + 1, Min2(o + n, Len(caps)))

\* a capabilities reply: reply code, the offset asked for, the fragment
CapsReply(o, frag, good) ==
    ReplyWith(OrFlag(3 + Len(frag)),
              <<GET_VCP_CAPS_REPLY, (o \div 256) % 256, o % 256>> \o frag, good)

\* one round of the loop of get_vcp_capabilities after the request went out:
\* _read_response, _validate_response, then `offset, payload =
\* secure_unpack(f">H{len(payload) - 2}s", payload)` on the payload as read
\* and payload.decode("ascii")
caps_round(policy, stream) ==
    LET r == read_response(stream)
        fail(e) == [err |-> e, offset |-> 0, frag |-> <<>>]
    IN  IF r.err # "" THEN fail(r.err)
        ELSE LET v == validate_response(r.header, r.payload, policy,
                                        GET_VCP_CAPS_REPLY, None)
             IN  IF v # "" THEN fail(v)
                 ELSE IF Len(r.payload) < 2 THEN fail("unpack")
                 ELSE LET rest == SubSeq(r.payload, 3, Len(r.payload))
                      IN  IF \E i \in 1..Len(rest) : rest[i] >= 128
                          THEN fail("decode")
                          ELSE [err |-> "",
                                offset |-> r.payload[1] * 256 + r.payload[2],
                                frag |-> rest]

\* parse_capabilities not called
NoParse == [err |-> "none", model |-> <<>>, cmds |-> {}, vcp |-> {}, inputs |-> {}]

PureIdle ==
    /\ sum_data = <<>>
    /\ sum_out = None
    /\ parse_in = <<>>
    /\ parse_out = NoParse

CapIdle ==
    /\ caps_str = <<>>
    /\ cap_offset = 0
    /\ loop_count = 0
    /\ cap_err = "none"
    /\ asked = <<>>
    /\ sent = <<>>

ProtoIdle ==
    /\ vcp_pc = "none"
    /\ vcp_code = None
    /\ checksum_errors = "ignore"
    /\ reply = <<>>
    /\ vcp_out = NoResult
    /\ frame = <<>>
    /\ in_scope = FALSE
    /\ display_caps = <<>>
    /\ CapIdle
    /\ PureIdle

\* LinuxVCP.__init__, a request about to be made and the answer it will get
InitVcp ==
    /\ vcp_pc = "closed"
    /\ vcp_code \in VcpCodes
    /\ checksum_errors \in {"ignore", "strict"}
    /\ reply \in Replies
    /\ vcp_out = NoResult
    /\ frame = <<>>
    /\ in_scope = FALSE
    /\ display_caps = <<>>
    /\ CapIdle
    /\ PureIdle

\* LinuxVCP.__init__ and the capability string of the display on the bus
InitCaps ==
    /\ vcp_pc = "closed"
    /\ vcp_code = None
    /\ checksum_errors \in {"ignore", "strict"}
    /\ reply = <<>>
    /\ vcp_out = NoResult
    /\ frame = <<>>
    /\ in_scope = FALSE
    /\ display_caps \in CapStrings
    /\ CapIdle
    /\ PureIdle

\* LinuxVCP.__enter__ raises (os.open, ioctl or the probing read failed):
\* in_context was set before the try block, and __exit__ does not run for a
\* scope that was not entered
LinuxEnterFails ==
    /\ vcp_pc = "closed"
    /\ in_context' = TRUE
    /\ UNCHANGED <<vcp_pc, in_scope>>
    /\ UNCHANGED <<vcp_code, checksum_errors, reply, vcp_out, frame, capVars>>
    /\ UNCHANGED <<kind, host_os, threadVars, vcp_handle, os_open, next_handle,
                   code_max, mon_name, usbVars, ioVars, baseVars, estVars, discVars, pureVars, uiVars>>

\* LinuxVCP.__enter__ succeeds
LinuxEnter ==
    /\ vcp_pc = "closed"
    /\ in_context' = TRUE
    /\ in_scope' = TRUE
    /\ vcp_pc' = "open"
    /\ UNCHANGED <<vcp_code, checksum_errors, reply, vcp_out, frame, capVars>>
    /\ UNCHANGED <<kind, host_os, threadVars, vcp_handle, os_open, next_handle,
                   code_max, mon_name, usbVars, ioVars, baseVars, estVars, discVars, pureVars, uiVars>>

\* get_vcp_feature(code) is called, inside a scope or outside one
GetVcpFeature ==
    /\ vcp_pc \in {"closed", "open"}
    /\ \E write_ok \in BOOLEAN :
          vcp_out' = get_vcp_feature(vcp_code, checksum_errors, in_context,
                                     write_ok, reply)
    /\ frame' = IF in_context THEN prepare_data(GET_VCP_CMD, <<vcp_code>>) ELSE frame
    /\ vcp_pc' = "done"
    /\ UNCHANGED <<vcp_code, checksum_errors, reply, in_scope, capVars>>
    /\ UNCHANGED <<monVars, baseVars, estVars, discVars, pureVars, uiVars>>

\* LinuxVCP.__exit__
LinuxExit ==
    /\ vcp_pc \in {"open", "done", "caps_done"}
    /\ in_scope
    /\ in_context' = FALSE
    /\ in_scope' = FALSE
    /\ vcp_pc' = "closed"
    /\ UNCHANGED <<vcp_code, checksum_errors, reply, vcp_out, frame, capVars>>
    /\ UNCHANGED <<kind, host_os, threadVars, vcp_handle, os_open, next_handle,
                   code_max, mon_name, usbVars, ioVars, baseVars, estVars, discVars, pureVars, uiVars>>

\* values a caller sets a feature to
SetValues == {0, 50, 300, 65535}

\* set_vcp_feature(code, value) is called, inside a scope or outside one
SetVcpFeature ==
    /\ vcp_pc \in {"closed", "open"}
    /\ \E value \in SetValues :
          frame' = IF in_context
                   THEN prepare_data(SET_VCP_CMD, <<vcp_code, value>>)
                   ELSE frame
    /\ UNCHANGED <<vcp_pc, vcp_code, checksum_errors, reply, vcp_out, in_scope, capVars>>
    /\ UNCHANGED <<monVars, baseVars, estVars, discVars, pureVars, uiVars>>

\* get_vcp_capabilities() is called, inside a scope or outside one
GetVcpCapabilities ==
    /\ vcp_pc \in {"closed", "open"}
    /\ caps_str' = <<>>
    /\ cap_offset' = 0
    /\ loop_count' = 0
    /\ asked' = <<>>
    /\ sent' = <<>>
    /\ IF in_context
       THEN vcp_pc' = "caps" /\ cap_err' = "none"
       ELSE vcp_pc' = "caps_done" /\ cap_err' = "not_in_context"
    /\ UNCHANGED <<vcp_code, checksum_errors, reply, vcp_out, frame, in_scope, display_caps>>
    /\ UNCHANGED <<monVars, baseVars, estVars, discVars, pureVars, uiVars>>

\* one pass of `for loop_count in range(self.max_tries)`; the display
\* answers the offset it reads in the request with the next fragment
CapsRound ==
    /\ vcp_pc = "caps"
    /\ loop_count < LinuxMaxTries
    /\ \E write_ok \in BOOLEAN, n \in 1..MaxFrag, good \in BOOLEAN :
          LET req == prepare_data(GET_VCP_CAPS_CMD, <<cap_offset>>)
              o == req[4] * 256 + req[5]
              frag == Fragment(display_caps, o, n)
              res == caps_round(checksum_errors, CapsReply(o, frag, good))
          IN  /\ frame' = req
              /\ IF ~write_ok
                 THEN /\ cap_err' = "write"
                      /\ vcp_pc' = "caps_done"
                      /\ UNCHANGED <<caps_str, cap_offset, loop_count, asked, sent>>
                 ELSE /\ asked' = Append(asked, o)
                      /\ sent' = Append(sent, frag)
                      /\ IF res.err # ""
                         THEN /\ cap_err' = res.err
                              /\ vcp_pc' = "caps_done"
                              /\ UNCHANGED <<caps_str, cap_offset, loop_count>>
                         ELSE IF res.frag = <<>>
                         THEN /\ cap_err' = ""
                              /\ vcp_pc' = "caps_done"
                              /\ UNCHANGED <<caps_str, cap_offset, loop_count>>
                         ELSE /\ caps_str' = caps_str \o res.frag
                              /\ cap_offset' = res.offset + Len(res.frag)
                              /\ loop_count' = loop_count + 1
                              /\ IF loop_count + 1 = LinuxMaxTries
                                 THEN cap_err' = "incomplete" /\ vcp_pc' = "caps_done"
                                 ELSE UNCHANGED <<cap_err, vcp_pc>>
    /\ UNCHANGED <<vcp_code, checksum_errors, reply, vcp_out, in_scope, display_caps>>
    /\ UNCHANGED <<monVars, baseVars, estVars, discVars, pureVars, uiVars>>

\* byte sequences handed to get_checksum
MaxData == 3
SumBytes == {0, 1, 80, 110, 128, 255}
InitSum ==
    /\ sum_data \in SeqsUpTo(SumBytes, MaxData)
    /\ sum_out = None
    /\ parse_in = <<>>
    /\ parse_out = NoParse

\* get_checksum(data + [get_checksum(data)]) is evaluated
ChecksumOfChecked ==
    /\ sum_out = None
    /\ sum_out' = get_checksum(Append(sum_data, get_checksum(sum_data)))
    /\ UNCHANGED <<sum_data, parse_in, parse_out, vcp_pc, vcp_code,
                   checksum_errors, reply, vcp_out, frame, in_scope, capVars>>
    /\ UNCHANGED <<monVars, baseVars, estVars, discVars, uiVars>>

(***************************************************************************)
(* vpc.parse_capabilities.  A string is a sequence of one-character        *)
(* strings; a dict of dicts is the set of its key paths.                   *)
(***************************************************************************)
Uppers == <<"A", "B", "C", "D", "E", "F", "G", "H", "I", "J", "K", "L", "M",
            "N", "O", "P", "Q", "R", "S", "T", "U", "V", "W", "X", "Y", "Z">>
Lowers == <<"a", "b", "c", "d", "e", "f", "g", "h", "i", "j", "k", "l", "m",
            "n", "o", "p", "q", "r", "s", "t", "u", "v", "w", "x", "y", "z">>
HexDigits == <<"0", "1", "2", "3", "4", "5", "6", "7", "8", "9",
               "a", "b", "c", "d", "e", "f">>

\* re.IGNORECASE: the character folded to lower case
Lower(c) ==
    IF \E i \in 1..26 : Uppers[i] = c
    THEN Lowers[CHOOSE i \in 1..26 : Uppers[i] = c]
    ELSE c

\* the value of a hexadecimal digit, None for any other character
DigitValue(c) ==
    IF \E i \in 1..16 : HexDigits[i] = Lower(c)
    THEN (CHOOSE i \in 1..16 : HexDigits[i] = Lower(c)) - 1
    ELSE None

\* int(chunk, 16) succeeds: digits only (no sign, prefix or underscore is in
\* the alphabet used here)
IsHex(chunk) ==
    chunk # <<>> /\ \A i \in 1..Len(chunk) : DigitValue(chunk[i]) # None

\* int(chunk, 16)
RECURSIVE HexInt(_)
HexInt(chunk) ==
    IF chunk = <<>> THEN 0
    ELSE 16 * HexInt(SubSeq(chunk, 1, Len(chunk) - 1))
         + DigitValue(chunk[Len(chunk)])

\* the pattern key\( matches at position i, case ignored
KeyAt(caps, key, i) ==
    /\ i + Len(key) <= Len(caps)
    /\ \A k \in 1..Len(key) : Lower(caps[i + k - 1]) = Lower(key[k])
    /\ caps[i + Len(key)] = "("

\* the least element of a non-empty set of numbers
Least(S) == CHOOSE x \in S : \A y \in S : x <= y

\* _extract_cap: re.search of key\((.*?)\): the leftmost key( that has a ")"
\* after it, and the text up to the first such ")"
extract_cap(caps, key) ==
    LET closes(i) == {j \in (i + Len(key) + 1)..Len(caps) : caps[j] = ")"}
        starts == {i \in 1..Len(caps) : KeyAt(caps, key, i) /\ closes(i) # {}}
    IN  IF starts = {} THEN <<>>
        ELSE LET i == Least(starts)
             IN  SubSeq(caps, i + Len(key) + 1, Least(closes(i)) - 1)

\* caps_str.replace("(", " ( ").replace(")", " ) ").split(); word: the
\* characters of the chunk being read
RECURSIVE Chunks(_, _)
Chunks(text, word) ==
    LET flush == IF word = <<>> THEN <<>> ELSE <<word>>
    IN  IF text = <<>> THEN flush
        ELSE IF Head(text) \in {"(", ")"}
        THEN flush \o <<<<Head(text)>>>> \o Chunks(Tail(text), <<>>)
        ELSE IF Head(text) = " "
        THEN flush \o Chunks(Tail(text), <<>>)
        ELSE Chunks(Tail(text), Append(word, Head(text)))

\* path p begins with path q
BeginsWith(p, q) == Len(q) <= Len(p) /\ SubSeq(p, 1, Len(q)) = q

\* the body of the loop of _cap_to_dict for one chunk; st.group is the
\* stack, st.prev is prev_val, st.dict the result so far, st.err the
\* exception raised
CapStep(st, chunk) ==
    IF chunk = <<"(">> THEN [st EXCEPT !.group = Append(@, st.prev)]
    ELSE IF chunk = <<")">>
    THEN IF st.group = <<>>
         THEN [st EXCEPT !.err = "IndexError"]
         ELSE [st EXCEPT !.group = SubSeq(@, 1, Len(@) - 1)]
    ELSE IF ~IsHex(chunk) THEN [st EXCEPT !.err = "ValueError"]
    ELSE IF st.group # <<>> /\ st.group \notin st.dict
    THEN [st EXCEPT !.err = "KeyError"]
    ELSE LET path == Append(st.group, HexInt(chunk))
         IN  [st EXCEPT !.dict = {p \in @ : ~BeginsWith(p, path)} \cup {path},
                        !.prev = HexInt(chunk)]

RECURSIVE CapFold(_, _)
CapFold(chunks, st) ==
    IF chunks = <<>> \/ st.err # "" THEN st
    ELSE CapFold(Tail(chunks), CapStep(st, Head(chunks)))

\* _cap_to_dict
cap_to_dict(text) ==
    CapFold(Chunks(text, <<>>),
            [dict |-> {}, group |-> <<>>, prev |-> None, err |-> ""])

\* VCPCodeDefinition.input_select
INPUT_SELECT == 96

\* parse_capabilities: cmds is converted before vcp; the other fields are
\* the extracted text (model stands for them); inputs lists the keys under
\* the input-select code
parse_capabilities(caps) ==
    LET cmds == cap_to_dict(extract_cap(caps, <<"c", "m", "d", "s">>))
        vcp == cap_to_dict(extract_cap(caps, <<"v", "c", "p">>))
    IN  IF cmds.err # "" THEN [NoParse EXCEPT !.err = cmds.err]
        ELSE IF vcp.err # "" THEN [NoParse EXCEPT !.err = vcp.err]
        ELSE [err |-> "",
              model |-> extract_cap(caps, <<"m", "o", "d", "e", "l">>),
              cmds |-> cmds.dict,
              vcp |-> vcp.dict,
              inputs |-> {p[2] : p \in {q \in vcp.dict :
                                          Len(q) = 2 /\ q[1] = INPUT_SELECT}}]

\* capability strings: what stands before the vcp group, the key as the
\* display spells it, the text of the group, and what follows it
CapPrefixes == {
    <<>>,
    <<"m", "o", "d", "e", "l", "(", "A", "B", "1", "2", ")">>,    \* model(AB12)
    <<"p", "r", "o", "t", "(", "m", "o", "n", "i", "t", "o", "r", ")", "c", "m", "d", "s", "(", "0", "1", " ", "0", "2", ")", "m", "o", "d", "e", "l", "(", "A", "B", "1", "2", ")">>}    \* prot(monitor)cmds(01 02)model(AB12)
CapKeys == {<<"v", "c", "p">>, <<"V", "C", "P">>}
CapBodies == {
    <<"1", "0">>,    \* 10
    <<"0", "4", " ", "1", "4", "(", "0", "5", " ", "0", "6", ")", " ", "1", "6">>,    \* 04 14(05 06) 16
    <<"1", "0", " ", "6", "0", "(", "0", "F", " ", "1", "1", ")">>,    \* 10 60(0F 11)
    <<"1", "0", " ", "1", "4", "(", "0", "1", " ", "0", "2", " ", "0", "5", ")">>,    \* 10 14(01 02 05)
    <<>>,
    <<"(", "1", "0", ")">>,    \* (10)
    <<"z", "z", " ", "1", "0">>,    \* zz 10
    <<"1", "4", "(", "0", "5">>}    \* 14(05
CapTails == {<<>>, <<")">>, <<")", "m", "c", "c", "s", "_", "v", "e", "r", "(", "2", ".", "1", ")">>}
CapInputs ==
    {pre \o key \o <<"(">> \o body \o tail :
        pre \in CapPrefixes, key \in CapKeys, body \in CapBodies, tail \in CapTails}

InitParse ==
    /\ parse_in \in CapInputs
    /\ parse_out = NoParse
    /\ sum_data = <<>>
    /\ sum_out = None

\* parse_capabilities(caps_str) is called
ParseCapabilities ==
    /\ parse_out = NoParse
    /\ parse_out' = parse_capabilities(parse_in)
    /\ UNCHANGED <<parse_in, sum_data, sum_out, vcp_pc, vcp_code,
                   checksum_errors, reply, vcp_out, frame, in_scope, capVars>>
    /\ UNCHANGED <<monVars, baseVars, estVars, discVars, uiVars>>

vars == <<baseVars, estVars, discVars, monVars, protoVars, uiVars>>

NextEst == ConvertSensorReadings

EstInit == InitEst /\ DiscIdle /\ MonIdle /\ ProtoIdle

SpecEst == EstInit /\ [][NextEst]_vars

NextDisc ==
    \/ UsbMonitors
    \/ GetVcpsUnsupported
    \/ GetVcps
    \/ GetVcpsRaises
    \/ ProbeChannel
    \/ InternalMonitors
    \/ ReturnMonitors

DiscInit ==
    /\ InitDisc /\ EstIdle /\ MonIdle /\ ProtoIdle
    /\ last_get_brightness = None /\ last_set_brightness = None

SpecDisc == DiscInit /\ [][NextDisc]_vars

\* discovery, then transfers through the USB handles it returned
UsbDiscInit == DiscInit

NextUsbDisc ==
    \/ NextDisc
    \/ ControlTransfer

SpecUsbDisc == UsbDiscInit /\ [][NextUsbDisc]_vars

\* one handle of any kind, called by one thread
MonInit == InitMon({"DDCCI", "M27Q", "WMI"}) /\ EstIdle /\ DiscIdle /\ ProtoIdle

Next ==
    \/ Call(1)
    \/ Return(1)
    \/ Tick
    \/ UsbLoop(1)
    \/ UsbWait(1)
    \/ UsbWrite(1)
    \/ UsbRead(1, BrightVals)
    \/ WmiCall(1, BrightVals)
    \/ VcpEnter(1)
    \/ VcpGet(1, BrightVals)
    \/ VcpSet(1)
    \/ VcpUpdateCap(1)
    \/ VcpExit(1)

Spec == MonInit /\ [][Next]_vars

\* one handle that is called and cleaned up
DelInit == InitMon({"DDCCI", "M27Q", "WMI"}) /\ EstIdle /\ DiscIdle /\ ProtoIdle

NextDel ==
    \/ Call(1)
    \/ Return(1)
    \/ Tick
    \/ UsbLoop(1)
    \/ UsbWait(1)
    \/ UsbWrite(1)
    \/ UsbRead(1, BrightVals)
    \/ WmiCall(1, BrightVals)
    \/ VcpEnter(1)
    \/ VcpGet(1, BrightVals)
    \/ VcpSet(1)
    \/ VcpUpdateCap(1)
    \/ VcpExit(1)
    \/ Del
    \/ ForeignOpen

SpecDel == DelInit /\ [][NextDel]_vars

\* the handle as the UI uses it: connected, then read and set

NextUI ==
    \/ Connect(1)
    \/ UpdateRowFromSensor
    \/ Call(1)
    \/ Return(1)
    \/ Tick
    \/ UsbLoop(1)
    \/ UsbWait(1)
    \/ UsbWrite(1)
    \/ UsbRead(1, UIVals)
    \/ WmiCall(1, UIVals)
    \/ VcpEnter(1)
    \/ VcpGet(1, UIVals)
    \/ VcpSet(1)
    \/ VcpUpdateCap(1)
    \/ VcpExit(1)

UIInit == InitMon({"DDCCI", "M27Q", "WMI"}) /\ EstIdle /\ DiscIdle /\ ProtoIdle

SpecUI == UIInit /\ [][NextUI]_vars

\* a connected row, its automatic mode and the worker: the state after
\* __connect_monitor read the brightness g, showed it and had it requested
WorkerInit ==
    /\ MonQuiet /\ DelIdle /\ EstIdle /\ DiscIdle /\ ProtoIdle
    /\ transfers = <<>>
    /\ SensorIdle
    /\ \E g \in UIVals :
          /\ last_get_brightness = g
          /\ slider = g
          /\ request_store = g
          /\ requested = <<g>>
    /\ last_set_brightness = None
    /\ sig_queue = 1
    /\ w_pc = "idle"
    /\ w_val = None
    /\ handed = <<>>
    /\ ticks = 0

NextWorker ==
    \/ UpdateRowFromSensor
    \/ SensorTick
    \/ UserAction
    \/ WorkerTake
    \/ WorkerClear
    \/ WorkerSet

SpecWorker == WorkerInit /\ [][NextWorker]_vars

\* a connected row in automatic mode and the sensor
SensorInit ==
    /\ MonQuiet /\ DelIdle /\ WorkerIdle /\ EstIdle /\ DiscIdle /\ ProtoIdle
    /\ transfers = <<>>
    /\ SensorIdle
    /\ last_get_brightness \in UIVals
    /\ slider = last_get_brightness
    /\ last_set_brightness = None

NextSensor ==
    \/ SensorUpdate
    \/ SensorTrim
    \/ UITake
    \/ UINext
    \/ UIFinish

SpecSensor == SensorInit /\ [][NextSensor]_vars

\* the handle as the application uses it, or the estimator called on a
\* handle with any cached brightness
AppInit == UIInit \/ EstInit

NextApp ==
    \/ NextUI
    \/ NextEst

SpecApp == AppInit /\ [][NextApp]_vars

\* one LinuxVCP asked for a feature
VcpInit ==
    /\ InitVcp /\ EstIdle /\ DiscIdle /\ MonIdle
    /\ last_get_brightness = None /\ last_set_brightness = None

NextVcp ==
    \/ LinuxEnter
    \/ LinuxEnterFails
    \/ GetVcpFeature
    \/ SetVcpFeature
    \/ LinuxExit

SpecVcp == VcpInit /\ [][NextVcp]_vars

\* get_checksum on its own
IdleVcp ==
    /\ vcp_pc = "none" /\ vcp_code = None /\ checksum_errors = "ignore"
    /\ reply = <<>> /\ vcp_out = NoResult /\ frame = <<>>
    /\ in_scope = FALSE
    /\ display_caps = <<>> /\ CapIdle

SumInit ==
    /\ InitSum /\ IdleVcp /\ EstIdle /\ DiscIdle /\ MonIdle
    /\ last_get_brightness = None /\ last_set_brightness = None

NextSum == ChecksumOfChecked

SpecSum == SumInit /\ [][NextSum]_vars

\* parse_capabilities on its own
ParseInit ==
    /\ InitParse /\ IdleVcp /\ EstIdle /\ DiscIdle /\ MonIdle
    /\ last_get_brightness = None /\ last_set_brightness = None

NextParse == ParseCapabilities

SpecParse == ParseInit /\ [][NextParse]_vars

\* one LinuxVCP asked for the capability string
CapsInit ==
    /\ InitCaps /\ EstIdle /\ DiscIdle /\ MonIdle
    /\ last_get_brightness = None /\ last_set_brightness = None

NextCaps ==
    \/ LinuxEnter
    \/ GetVcpCapabilities
    \/ CapsRound
    \/ LinuxExit

SpecCaps == CapsInit /\ [][NextCaps]_vars

\* one M27Q called by two threads
UsbInit == InitMon({"M27Q"}) /\ EstIdle /\ DiscIdle /\ ProtoIdle

NextUSB2 ==
    \/ Tick
    \/ \E t \in Threads :
          \/ Call(t)
          \/ Return(t)
          \/ UsbLoop(t)
          \/ UsbWait(t)
          \/ UsbWrite(t)
          \/ UsbRead(t, {50})

SpecUSB2 == UsbInit /\ [][NextUSB2]_vars

\* one MonitorDDCCI called by two threads
DdcInit == InitMon({"DDCCI"}) /\ EstIdle /\ DiscIdle /\ ProtoIdle

NextDDC2 ==
    \E t \in Threads :
        \/ Call(t)
        \/ Return(t)
        \/ VcpEnter(t)
        \/ VcpGet(t, {50})
        \/ VcpSet(t)
        \/ VcpUpdateCap(t)
        \/ VcpExit(t)

SpecDDC2 == DdcInit /\ [][NextDDC2]_vars

(***************************************************************************)
(* Claims about the estimator.                                             *)
(***************************************************************************)
SumConverted == SumSeq(MapBrightness(readings))
EstCalled == est_pc = "done" /\ Len(readings) > 0 /\ last_get_brightness # None

\* C9 as stated: with the exact mean m of the converted samples, the call
\* returns None whenever |m - last| < threshold and returns m otherwise
\* (|m - last| < th is n*|m - last| < n*th, kept in integers).
C9_Original ==
    EstCalled =>
        LET n == Len(readings)
        IN  IF Abs(SumConverted - last_get_brightness * n) < diff_th * n
            THEN est_result = None
            ELSE est_result # None /\ est_result * n = SumConverted

\* C9 amended: with p the mean of the converted samples truncated to an
\* integer, the call returns None whenever |p - last| < threshold and
\* returns p (which lies in the brightness range) otherwise.
C9_Hysteresis ==
    EstCalled =>
        \E p \in min_brightness..max_brightness :
            /\ p * Len(readings) <= SumConverted
            /\ SumConverted < (p + 1) * Len(readings)
            /\ IF Abs(p - last_get_brightness) < diff_th
               THEN est_result = None
               ELSE est_result = p

\* C9 witness: both branches of the amended claim happen; here a call whose
\* truncated mean is exactly threshold away from last and is returned.
C9_Witness ==
    /\ EstCalled
    /\ est_result # None
    /\ Abs(est_result - last_get_brightness) = diff_th

\* C10 as stated: a returned candidate is the (exact) mean of the per-sample
\* candidates clamp(round(2 * sample), min, max).
C10_Original ==
    (EstCalled /\ est_result # None) =>
        est_result * Len(readings) = SumConverted

\* C10 amended: a returned candidate is the mean, truncated to an integer,
\* of the per-sample candidates clamp(2 * sample, min, max): samples are
\* converted first and averaged afterwards; samples [40, 42, 41] with
\* last = 60 return 82.
C10_ConvertThenAverage ==
    /\ (EstCalled /\ est_result # None) =>
          /\ est_result * Len(readings) <= SumConverted
          /\ SumConverted < (est_result + 1) * Len(readings)
    /\ (est_pc = "done" /\ readings = <<40, 42, 41>> /\ last_get_brightness = 60) =>
          est_result = 82

\* C10 witness: the scenario of the claim has been computed.
C10_Witness ==
    /\ est_pc = "done"
    /\ readings = <<40, 42, 41>>
    /\ last_get_brightness = 60
    /\ est_result = 82


(***************************************************************************)
(* Claims about the discovery pass.                                        *)
(***************************************************************************)
ResultIdx == 1..Len(disc_result)
UsbClaimed(name) == \E k \in 1..Len(usb_monitors) : usb_monitors[k].name = name
InResult(src, id) ==
    \E i \in ResultIdx : disc_result[i].src = src /\ disc_result[i].id = id

\* C6 as stated: in a returned list no two entries of different discovery
\* sources (USB, DDC/CI, internal panel) have the same name.
C6_Original ==
    disc_pc = "done" =>
        \A i, j \in ResultIdx :
            disc_result[i].src # disc_result[j].src =>
                disc_result[i].name # disc_result[j].name

\* C6 amended: in a returned list no DDC/CI entry has the name of a USB
\* entry, and every USB monitor found is in the list exactly once; so a USB
\* monitor and a DDC/CI monitor of the same name leave the USB entry as the
\* only non-internal entry of that name.
C6_Dedup ==
    disc_pc = "done" =>
        /\ \A i, j \in ResultIdx :
              (disc_result[i].src = "USB" /\ disc_result[j].src = "DDCCI") =>
                  disc_result[i].name # disc_result[j].name
        /\ \A k \in 1..Len(usb_monitors) :
              Cardinality({i \in ResultIdx : disc_result[i] = usb_monitors[k]}) = 1
        /\ (Len(usb_monitors) = 1 /\ \E d \in 1..Len(all_ddcci) :
                                        all_ddcci[d].name = usb_monitors[1].name) =>
              {i \in ResultIdx : disc_result[i].name = usb_monitors[1].name} = {1}

\* C6 witness: one USB monitor and a probed DDC/CI monitor of the same name,
\* and the list has been returned.
C6_Witness ==
    /\ disc_pc = "done"
    /\ Len(usb_monitors) = 1
    /\ \E d \in 1..Len(all_ddcci) : all_ddcci[d].name = usb_monitors[1].name
    /\ Cardinality({i \in ResultIdx : disc_result[i].name = "M27Q"}) = 1

\* C7: a channel none of whose forced brightness reads succeeded is not in
\* the returned list, and a channel that answered at least one read is (unless
\* a USB monitor claimed its name).
C7_DropsSilentChannels ==
    disc_pc = "done" =>
        \A ch \in 1..Len(probe_log) :
            /\ ~probe_log[ch].answered => ~InResult("DDCCI", ch)
            /\ (probe_log[ch].answered /\ ~UsbClaimed(probe_log[ch].name)) =>
                   InResult("DDCCI", ch)

\* C8: no error met while enumerating or probing aborts the pass: the call
\* returns a list, which holds every matching USB device and every channel
\* whose probe met no error (unless a USB monitor claimed its name).
C8_NeverAborts ==
    /\ disc_pc # "raised"
    /\ disc_pc = "done" =>
          /\ \A k \in 1..Len(usb_monitors) : InResult("USB", usb_monitors[k].id)
          /\ \A ch \in 1..Len(probe_log) :
                (~probe_log[ch].raised /\ ~UsbClaimed(probe_log[ch].name)) =>
                    InResult("DDCCI", ch)


(***************************************************************************)
(* Claims about the monitor handles.                                       *)
(***************************************************************************)
Quiet(t) == pc[t] \in {"idle", "done", "raised"}
InScope(t) == pc[t] \in {"ddc_body", "ddc_exit"}

\* C1: no get_brightness or set_brightness call on a monitor handle ends
\* with an exception raised to its caller.
C1_NeverRaises ==
    \A t \in Threads : op[t].name \in {"get", "set"} => pc[t] # "raised"

\* C2: a forced get_brightness (MonitorDDCCI, M27Q) in which one value makes
\* up more than half of the successful reads returns that value.
C2_Majority ==
    \A t \in Threads :
        (pc[t] = "done" /\ op[t].name = "get" /\ op[t].force /\ kind \in {"DDCCI", "M27Q"}) =>
            \A v \in Range(values[t]) :
                2 * Count(v, values[t]) > Len(values[t]) => ret[t] = v

\* C2 witness: the reads [50, 50, 52, 50] of a forced get, which returned 50.
C2_Witness ==
    /\ pc[1] = "done"
    /\ op[1].name = "get"
    /\ op[1].force
    /\ values[1] = <<50, 50, 52, 50>>
    /\ ret[1] = 50

\* C3: outside a `with vcp:` scope the channel holds no open OS handle:
\* every handle opened on entry has been released on exit.
C3_ClosedAfterScope ==
    (\A t \in Threads : Quiet(t)) => os_open = {}

\* C4: between the request write and the reply read of one get attempt on
\* an M27Q no other thread issues a control transfer: the thread about to
\* read holds the lock and ran the last transfer itself.
C4_NoInterleaving ==
    \A t \in Threads : pc[t] = "usb_read" => (wire_owner = t /\ lock = t)

\* C4 witness: one thread is between its write and its read while the other
\* is about to start its own transfers.
C4_Witness ==
    /\ pc[1] = "usb_read"
    /\ pc[2] = "usb_xfer"
    /\ wire_owner = 1

\* C5: two calls on one MonitorDDCCI are never inside the channel scope at
\* the same time, and a call inside its scope finds the channel usable (its
\* handle not released, its context not left by another call).
C5_ScopeExclusive ==
    /\ ~(InScope(1) /\ InScope(2))
    /\ \A t \in Threads : pc[t] = "ddc_body" => Usable

\* C11: MonitorDDCCI.set_brightness delivers a SET_VCP write only when the
\* maximum of the luminance code is known (cached or just fetched) and the
\* value does not exceed it; a pass refused because the value exceeds the
\* maximum delivers no write and leaves last_set_brightness unchanged.
C11_MaxRespected ==
    [][\A t \in Threads :
          (kind = "DDCCI" /\ pc[t] = "ddc_body" /\ op[t].name = "set") =>
             /\ wire'.xfer = "write" =>
                    (code_max' # None /\ op[t].value <= code_max')
             /\ (code_max' # None /\ op[t].value > code_max') =>
                    (wire'.xfer # "write" /\ UNCHANGED last_set_brightness)]_vars

\* C11 witness: a set of 52 was written, then a set of 120 was refused
\* against the maximum 100 and left last_set_brightness at 52.
C11_Witness ==
    /\ kind = "DDCCI"
    /\ pc[1] = "done"
    /\ op[1].name = "set"
    /\ code_max = DevMax
    /\ op[1].value > code_max
    /\ last_set_brightness = 52

\* the call ended by giving its caller what it asked for
Succeeded(t) == leave[t] = "return" \/ (op[t].name = "get" /\ ret[t] # None)

\* loop passes the call is allowed
Allowed(t) == MaxTries(op[t], IF kind = "M27Q" THEN M27Q_max_tries ELSE DDC_max_tries)

\* C12: a get_brightness or set_brightness call (MonitorDDCCI, M27Q) that
\* has ended without success has used all its attempts, one when neither
\* blocking nor force is set and max_tries otherwise: every error of an
\* attempt is caught and followed by the next attempt.
C12_AttemptsUsedUp ==
    \A t \in Threads :
        (/\ pc[t] \in {"done", "raised"}
         /\ op[t].name \in {"get", "set"}
         /\ kind \in {"DDCCI", "M27Q"}
         /\ ~Succeeded(t)) => tries[t] = Allowed(t)

\* a get_brightness call has returned after at least one successful read
GetReturned(t) ==
    /\ pc[t] = "done"
    /\ op[t].name = "get"
    /\ kind \in {"DDCCI", "M27Q"}
    /\ values[t] # <<>>

\* C13 as stated: after a get_brightness call with a successful read,
\* last_get_brightness is the value of the last successful read of the call,
\* forced or not.
C13_Original ==
    \A t \in Threads :
        GetReturned(t) => last_get_brightness = values[t][Len(values[t])]

\* C13: after a get_brightness call (MonitorDDCCI, M27Q) that returns after
\* at least one successful read, last_get_brightness is the value returned:
\* the one successful read on the non-forced path, a most frequent value of
\* the successful reads on the forced path.
C13_CachesReturned ==
    \A t \in Threads :
        GetReturned(t) =>
            /\ last_get_brightness = ret[t]
            /\ ret[t] \in Range(values[t])
            /\ \A w \in Range(values[t]) :
                   Count(ret[t], values[t]) >= Count(w, values[t])
            /\ ~op[t].force =>
                   (Len(values[t]) = 1 /\ ret[t] = values[t][1])

\* C13 witness: a forced get read 50, 50 and 52, returned 50 and cached 50,
\* not the last read.
C13_Witness ==
    /\ GetReturned(1)
    /\ op[1].force
    /\ values[1] = <<50, 50, 52>>
    /\ ret[1] = 50
    /\ last_get_brightness = 50

\* C14: whenever no call is in progress, last_get_brightness is the value
\* get_brightness most recently returned to a caller (None before any value
\* was returned): nothing but a get that returns a value changes it.
C14_CacheIsLastReturned ==
    (\A t \in Threads : pc[t] = "idle") => last_get_brightness = last_returned

\* the value a set_brightness call sends: M27Q clamps it first
ValueWritten(t) ==
    IF kind = "M27Q" THEN clamp_brightness(op[t].value) ELSE op[t].value

\* C15: last_set_brightness changes only in a step of a set_brightness call
\* that delivers its write to the device, and becomes the value written.
C15_SetOnlyWhenDelivered ==
    [][last_set_brightness' # last_set_brightness =>
          /\ wire'.xfer = "write"
          /\ \E t \in Threads :
                /\ op[t].name = "set"
                /\ last_set_brightness' = ValueWritten(t)]_vars

\* C16: a forced M27Q.set_brightness ends only after a read-back that equals
\* the value written, or after max_tries attempts.
C16_WriteVerified ==
    \A t \in Threads :
        (kind = "M27Q" /\ pc[t] = "done" /\ op[t].name = "set" /\ op[t].force) =>
            \/ tries[t] = M27Q_max_tries
            \/ /\ values[t] # <<>>
               /\ values[t][Len(values[t])] = ValueWritten(t)

\* C17: on an M27Q, the step that delivers the first control transfer of a
\* command (the write of get_osd / set_osd) is taken only when usb_delay_ns
\* have passed since the previous delivered transfer.
C17_Spacing ==
    [][\A t \in Threads :
          (/\ kind = "M27Q"
           /\ pc[t] = "usb_xfer"
           /\ pc'[t] # "usb_xfer"
           /\ wire'.xfer = "write") => wire_quiet]_vars

\* C18: a get_brightness or set_brightness call on an M27Q with neither
\* blocking nor force, which polls the device while it is not ready, delivers
\* no control transfer, does not assign last_interaction_ns, leaves
\* last_get_brightness and last_set_brightness unchanged and goes to the end
\* of the call, where a get returns None.
C18_NotReadyFrame ==
    [][\A t \in Threads :
          (/\ kind = "M27Q"
           /\ busy'[t]
           /\ pc[t] # "idle"
           /\ (pc'[t] # pc[t] \/ tries'[t] # tries[t])) =>
             /\ wire' = NoIO
             /\ UNCHANGED <<last_get_brightness, last_set_brightness>>
             /\ pc'[t] \in {"usb_loop", "done"}
             /\ pc'[t] = "done" => (ret'[t] = None /\ leave'[t] = "")]_vars

\* C18 witness: a get returned 50, and the next, non-blocking get found the
\* device not ready: it returned None and left the cached 50.
C18_Witness ==
    /\ kind = "M27Q"
    /\ pc[1] = "done"
    /\ busy[1]
    /\ op[1].name = "get"
    /\ ret[1] = None
    /\ ~usb_ready
    /\ last_get_brightness = 50

\* a GET_VCP reply as the claim describes it: the length field announces the
\* 8 data bytes, reply code 0x02, result code 0, the requested code echoed,
\* the checksum the xor of all bytes before it
WellFormedReply(code, stream) ==
    /\ Len(stream) = 11
    /\ ClearFlag(stream[2]) = 8
    /\ stream[3] = GET_VCP_REPLY
    /\ stream[4] = 0
    /\ stream[5] = code
    /\ stream[11] = get_checksum(SubSeq(stream, 1, 10))

\* the request went out and the display's answer was read
ReplyRead == vcp_pc = "done" /\ vcp_out.err \notin {"not_in_context", "write"}

\* C19: for every well-formed GET_VCP reply, get_vcp_feature(code) called
\* inside an open scope returns (current, maximum) as encoded in the reply.
C19_WellFormedReplyReturned ==
    (ReplyRead /\ WellFormedReply(vcp_code, reply)) =>
        vcp_out = Result(reply[9] * 256 + reply[10], reply[7] * 256 + reply[8])

\* the reply carries a reply-code byte and an echoed feature code, and one of
\* them is not what the request expects
Mismatch(code, stream) ==
    /\ Len(stream) >= 5
    /\ (stream[3] # GET_VCP_REPLY \/ stream[5] # code)

\* C20: get_vcp_feature(code) raises a VCP error and returns no value
\* whenever the reply's opcode is not the GET_VCP reply opcode or the
\* feature code echoed in the reply differs from the requested code.
C20_MismatchRaises ==
    (vcp_pc = "done" /\ Mismatch(vcp_code, reply)) =>
        (vcp_out.err # "" /\ vcp_out.current = None /\ vcp_out.maximum = None)

\* an answered request whose reply echoes another feature code was refused
\* for that reason; so was one with another reply code
C20_Witness ==
    /\ ReplyRead
    /\ Mismatch(vcp_code, reply)
    /\ reply[3] = GET_VCP_REPLY
    /\ vcp_out = Failure("opcode")

\* the checksum as _validate_response sees it: the last byte read of the
\* payload does not equal the xor of the header and the bytes before it
ChecksumMismatch(stream) ==
    LET r == read_response(stream)
    IN  /\ r.err = ""
        /\ Len(r.payload) >= 1
        /\ r.payload[Len(r.payload)]
              # get_checksum(r.header \o SubSeq(r.payload, 1, Len(r.payload) - 1))

\* the same answer with the byte read as checksum replaced by the matching one
Repaired(stream) ==
    LET r == read_response(stream)
        n == Len(r.header) + Len(r.payload)
    IN  [i \in 1..Len(stream) |->
            IF i = n THEN get_checksum(SubSeq(stream, 1, n - 1)) ELSE stream[i]]

\* C21: for a reply whose checksum does not match, policy "strict" makes the
\* read raise; with policy "ignore" the mismatch alone never causes an error:
\* the call raises exactly when it raises, for the same reason, on the reply
\* with a matching checksum, and reports the same maximum.
C21_PolicyDecides ==
    (ReplyRead /\ ChecksumMismatch(reply)) =>
        /\ checksum_errors = "strict" => vcp_out = Failure("checksum")
        /\ checksum_errors = "ignore" =>
              LET valid == get_vcp_feature(vcp_code, "strict", TRUE, TRUE,
                                           Repaired(reply))
              IN  /\ vcp_out.err = valid.err
                  /\ vcp_out.maximum = valid.maximum

\* a reply with a checksum that does not match was accepted under "ignore"
C21_Witness ==
    /\ ReplyRead
    /\ ChecksumMismatch(reply)
    /\ checksum_errors = "ignore"
    /\ vcp_out.err = ""

\* the fragments the display sent, joined in order
RECURSIVE Joined(_)
Joined(frags) == IF frags = <<>> THEN <<>> ELSE frags[1] \o Joined(Tail(frags))

\* the offset the k-th request should carry: the length received before it
FragmentsBefore(k) == Len(Joined(SubSeq(sent, 1, k - 1)))

\* C22: get_vcp_capabilities asks in each round for the offset equal to the
\* length of the fragments received so far, and as soon as the display
\* answers with a zero-length fragment it returns the fragments joined in
\* order.
C22_CapabilitiesReturned ==
    /\ \A k \in 1..Len(asked) : asked[k] = FragmentsBefore(k)
    /\ (vcp_pc = "caps_done" /\ sent # <<>> /\ sent[Len(sent)] = <<>>
        /\ cap_err # "write")
          => (cap_err = "" /\ caps_str = Joined(sent))

\* C23: every request frame built by _prepare_data is [0x51, n | 0x80, n
\* payload bytes, checksum], the checksum being the xor of 0x6E with the
\* header and payload bytes, so that 0x6E xor all bytes of the frame is 0.
C23_FrameForm ==
    frame # <<>> =>
        LET n == Len(frame) - 3
        IN  /\ n >= 1
            /\ frame[1] = 81
            /\ frame[2] = n + 128
            /\ frame[Len(frame)]
                  = get_checksum(<<110>> \o SubSeq(frame, 1, Len(frame) - 1))
            /\ get_checksum(<<110>> \o frame) = 0

\* a set_vcp_feature request with a two-byte value was built
C23_Witness ==
    /\ Len(frame) = 8
    /\ frame[3] = SET_VCP_CMD
    /\ frame[6] * 256 + frame[7] = 300

\* C24: for every byte sequence data,
\* get_checksum(data + [get_checksum(data)]) = 0.
C24_SelfCancelling == sum_out # None => sum_out = 0

\* the checksum of three bytes with a non-zero checksum was appended and
\* the whole checked
C24_Witness ==
    /\ sum_out = 0
    /\ Len(sum_data) = 3
    /\ get_checksum(sum_data) # 0

\* "(" minus ")" among the first k characters
Depth(text, k) ==
    Cardinality({i \in 1..k : text[i] = "("})
    - Cardinality({i \in 1..k : text[i] = ")"})

\* the same among the first k chunks
ChunkDepth(chunks, k) ==
    Cardinality({i \in 1..k : chunks[i] = <<"(">>})
    - Cardinality({i \in 1..k : chunks[i] = <<")">>})

Balanced(text) ==
    /\ \A k \in 1..Len(text) : Depth(text, k) >= 0
    /\ Depth(text, Len(text)) = 0

\* the contents of the first key(...) group of a balanced string, up to the
\* parenthesis that closes it
GroupOf(text, key) ==
    LET starts == {i \in 1..Len(text) : KeyAt(text, key, i)}
    IN  IF starts = {} THEN <<>>
        ELSE LET open == Least(starts) + Len(key)
                 close == Least({j \in (open + 1)..Len(text) :
                                    Depth(text, j) = Depth(text, open) - 1})
             IN  SubSeq(text, open + 1, close - 1)

IsParen(chunk) == chunk \in {<<"(">>, <<")">>}

\* the vcp group lists hexadecimal codes, some followed by one parenthesised
\* list of hexadecimal sub-values
PlainVcpGroup(text) ==
    LET chunks == Chunks(GroupOf(text, <<"v", "c", "p">>), <<>>)
    IN  /\ \E i \in 1..Len(text) : KeyAt(text, <<"v", "c", "p">>, i)
        /\ \A k \in 1..Len(chunks) :
              /\ ChunkDepth(chunks, k) <= 1
              /\ ~IsParen(chunks[k]) => IsHex(chunks[k])
              /\ chunks[k] = <<"(">> => (k > 1 /\ ~IsParen(chunks[k - 1]))

\* what the claim asks for: every code outside inner parentheses is a key,
\* and its sub-values are the tokens of the list right after it
ExpectedVcp(text) ==
    LET chunks == Chunks(GroupOf(text, <<"v", "c", "p">>), <<>>)
        codes == {k \in 1..Len(chunks) :
                     ~IsParen(chunks[k]) /\ ChunkDepth(chunks, k) = 0}
    IN  {<<HexInt(chunks[k])>> : k \in codes}
        \cup {<<HexInt(chunks[c[1]]), HexInt(chunks[c[2]])>> :
                c \in {d \in codes \X (1..Len(chunks)) :
                          /\ d[1] < d[2]
                          /\ ~IsParen(chunks[d[2]])
                          /\ \A j \in (d[1] + 1)..d[2] : ChunkDepth(chunks, j) = 1}}

\* C25: for every capability string with balanced parentheses,
\* parse_capabilities returns the contents of the model(...) group as model
\* and a vcp map whose keys are the codes of the vcp(...) group outside
\* inner parentheses, each with the sub-values of the list right after it,
\* codes that come after such a list included.
C25_VcpGroupParsed ==
    (parse_out.err # "none" /\ Balanced(parse_in) /\ PlainVcpGroup(parse_in)) =>
        /\ parse_out.err = ""
        /\ parse_out.model = GroupOf(parse_in, <<"m", "o", "d", "e", "l">>)
        /\ parse_out.vcp = ExpectedVcp(parse_in)

\* C26: parse_capabilities never raises, whatever the string: missing keys, a
\* truncated tail, a parenthesis leading the vcp group, tokens that are not
\* hexadecimal numbers.
C26_NeverRaises == parse_out.err \in {"none", ""}

\* C27: update_cap changes the monitor's name only when a fetched capability
\* string has a non-empty model field: a step of update_cap that changes
\* the name sets it to a non-empty model.
C27_NameOnlyFromModel ==
    [][\A t \in Threads :
          (op[t].name = "update_cap" /\ mon_name' # mon_name) => mon_name' # ""]_vars

\* C28: convert_sensor_readings performs no channel or USB transaction and
\* changes no state of the monitor handle (last_get_brightness,
\* last_set_brightness, cached maxima, name): it only reads the cached
\* last-known brightness.
C28_EstimatorFrame ==
    [][(est_pc = "ready" /\ est_pc' = "done") =>
          /\ wire' = wire /\ wire'.xfer = "none" /\ ~wire'.stamp
          /\ UNCHANGED <<last_get_brightness, last_set_brightness, code_max,
                         mon_name, vcp_handle, in_context, usb_ready, lock>>
          /\ est_result' = convert_sensor_readings(readings, last_get_brightness)]_vars

\* the call has proposed a brightness from the cached value
C28_Witness ==
    /\ est_pc = "done"
    /\ est_result # None
    /\ last_get_brightness # None
    /\ wire.xfer = "none"

\* C29: every non-None value returned by convert_sensor_readings lies between
\* min_brightness and max_brightness inclusive, for every sequence of
\* integer samples, negative and large ones included.
C29_WithinRange ==
    (est_pc = "done" /\ est_result # None) =>
        (min_brightness <= est_result /\ est_result <= max_brightness)

\* samples whose doubles lie above the range gave the maximum
C29_Witness ==
    /\ est_pc = "done"
    /\ est_result = max_brightness
    /\ readings # <<>>
    /\ \A i \in 1..Len(readings) : readings[i] * 2 > max_brightness

\* thread t hands back a get_brightness that read nothing
GetGaveNone(t) ==
    /\ pc[t] \in {"done", "raised"}
    /\ pc'[t] = "idle"
    /\ op[t].name = "get"
    /\ ret[t] = None

\* C30: an unknown brightness is never treated as zero.
\* convert_sensor_readings returns None when last_get_brightness is None and
\* when there are no samples, and leaves the slider alone then; a handle
\* whose brightness read returned None is not given the last-known
\* brightness 0 and its row does not show 0.
C30_UnknownIsNotZero ==
    [][/\ (est_pc # "done" /\ est_pc' = "done"
           /\ (last_get_brightness = None \/ readings' = <<>>))
          => (est_result' = None /\ slider' = slider)
       /\ \A t \in Threads :
             GetGaveNone(t) =>
                /\ last_get_brightness' \in {None, last_get_brightness}
                /\ slider' \in {None, slider}]_vars

\* samples that stand for a brightness far from 0 were converted on a
\* handle whose brightness is unknown, and nothing was proposed
C30_Witness ==
    /\ est_pc = "done"
    /\ readings # <<>>
    /\ \A i \in 1..Len(readings) : readings[i] >= 40
    /\ est_result = None
    /\ last_get_brightness = None

\* position of a discovery route in the returned list
SrcRank(src) == IF src = "USB" THEN 1 ELSE IF src = "DDCCI" THEN 2 ELSE 3

\* C31: the list returned by get_supported_monitors holds the USB monitors
\* first, then the DDC/CI monitors that survive the deduplication, then the
\* internal panel, each group complete and in its enumeration order.
C31_Ordered ==
    disc_pc = "done" =>
        /\ \A i, j \in 1..Len(disc_result) :
              i < j =>
                 /\ SrcRank(disc_result[i].src) <= SrcRank(disc_result[j].src)
                 /\ disc_result[i].src = disc_result[j].src
                       => disc_result[i].id < disc_result[j].id
        /\ SubSeq(disc_result, 1, Len(usb_monitors)) = usb_monitors
        /\ \A k \in 1..Len(all_ddcci) :
              (\A u \in 1..Len(usb_monitors) : usb_monitors[u].name # all_ddcci[k].name)
                 => \E i \in 1..Len(disc_result) : disc_result[i] = all_ddcci[k]
        /\ internal_monitors # <<>>
              => disc_result[Len(disc_result)] = internal_monitors[1]

\* C31 witness: a returned list with one USB monitor, two DDC/CI monitors
\* and the internal panel.
C31_Witness ==
    /\ disc_pc = "done"
    /\ Len(disc_result) = 4
    /\ disc_result[1].src = "USB"
    /\ disc_result[2].src = "DDCCI"
    /\ disc_result[3].src = "DDCCI"
    /\ disc_result[4].src = "WMI"

\* C32: however often __del__ runs on a handle, the USB device is closed at
\* most once, a channel descriptor the handle holds is closed at most once,
\* no descriptor that has passed to another owner is closed, and after a
\* cleanup the handle holds no device.
C32_CleanupIdempotent ==
    /\ Cardinality({i \in 1..Len(del_log) : del_log[i] = "usb"}) <= 1
    /\ \A i \in 1..Len(del_log) : del_log[i] # "foreign"
    /\ del_log # <<>> => ~DeviceHeld

\* C33: once a proposal p of convert_sensor_readings has been applied by a
\* successful set_brightness(p), the next sensor tick with the same samples
\* proposes nothing.
C33_Quiescent ==
    [][(/\ est_pc = "done"
        /\ est_result # None
        /\ last_set_brightness = est_result
        /\ ticks' = ticks + 1
        /\ readings' = readings)
          => est_result' = None]_vars

\* C34: whenever no update is queued and the worker is idle, the worker has
\* made no more writes than there were requests and the value it handed to
\* set_brightness last is the value requested last.
C34_LastRequestWins ==
    (sig_queue = 0 /\ w_pc = "idle" /\ requested # <<>>) =>
        /\ Len(handed) <= Len(requested)
        /\ handed # <<>>
        /\ handed[Len(handed)] = requested[Len(requested)]

\* C35: every control transfer made through a USB handle of the returned
\* list reaches the device the handle was created for.
C35_OwnDevice ==
    \A k \in 1..Len(transfers) : transfers[k].device = transfers[k].handle

\* C36: in_context is true exactly while the caller is inside an entered
\* scope, and a call made outside one builds and writes no request and ends
\* with the VCPError of the context check.
C36_ScopeGuard ==
    [][/\ in_context' = in_scope'
       /\ (~in_scope /\ ~in_scope') =>
             /\ frame' = frame
             /\ vcp_out' # vcp_out => vcp_out'.err = "not_in_context"]_vars

\* C37: after every completed SensorComm.update, measurements holds at most
\* num_measurements samples and they are the readings received last, oldest
\* first; a reading that arrives at capacity has evicted exactly the oldest.
C37_Window ==
    s_pc = "idle" =>
        /\ Len(measurements) <= num_measurements
        /\ Len(measurements) = Min2(num_measurements, Len(arrived))
        /\ \A i \in 1..Len(measurements) :
              measurements[i] = arrived[Len(arrived) - Len(measurements) + i]

\* C37 witness: more readings than the window holds have arrived, the last
\* of them differs from the one before, and the update has completed.
C37_Witness ==
    /\ s_pc = "idle"
    /\ Len(arrived) > num_measurements
    /\ Len(measurements) = num_measurements
    /\ arrived[Len(arrived)] # arrived[Len(arrived) - 1]

\* C38: the list handed to convert_sensor_readings never holds more than
\* num_measurements samples, the estimator never iterates over more, and
\* the list does not change while the estimator iterates over it.
C38_Snapshot ==
    [][/\ Iterating => (Len(ui_list) <= num_measurements /\ Len(ui_seen) <= num_measurements)
       /\ (Iterating /\ Iterating') => ui_list' = ui_list]_vars

====
